---- MODULE Spec2Model ----
(***************************************************************************)
(* Model of Zotero.Sync.Runner_Module                                      *)
(* (chrome/content/zotero/xpcom/sync/syncRunner.js).                       *)
(*                                                                         *)
(* Every sync() invocation is a coroutine.  A step of the model is the     *)
(* code that runs between two suspension points (yield) of a coroutine:    *)
(* the answer of the awaited collaborator is drawn with \E, and the code   *)
(* up to the next yield is applied atomically.  The module-level variables *)
(* of the runner (_syncInProgress, _errors, _firstInSession, ...) are      *)
(* shared by all invocations.                                              *)
(***************************************************************************)
EXTENDS Integers, Sequences, FiniteSets, TLC

\* ---------------------------------------------------------------- bounds
\* number of sync() callers that may be started (manual click, timer, ...)
MaxInv == 2
\* group IDs are 1..NumGroups
NumGroups == 2
\* the groups 1..SessionGroups exist, locally or remotely, in the runs that
\* follow whole sessions with every kind of caller
SessionGroups == 1
\* group versions are 1..MaxVersion
MaxVersion == 2
\* engine failures reported per session
MaxErrors == 1
\* restarts of a session through the long tag fixer
MaxRestarts == 1
\* libraries one session syncs
MaxLibs == 2

\* ------------------------------------------------------ program constants
stopOnError == FALSE
MaxAttempts == 3
FileTries == 3
userLibraryID == 1
publicationsLibraryID == 2

Invs == 1..MaxInv
GroupIDs == 1..NumGroups
SessionGroupIDs == 1..SessionGroups
NoLib == 0

\* Zotero.Groups.get(id).libraryID
GroupLibraryID(g) == publicationsLibraryID + g

\* ------------------------------------------------------------ error objects
\* A thrown object.  errorType "none" is an unset errorType, libraryID NoLib
\* an unset libraryID.
NewError(id, kind, fatal) ==
    [id |-> id, kind |-> kind, fatal |-> fatal, errorType |-> "none",
     libraryID |-> NoLib, added |-> FALSE, parsed |-> FALSE]

\* this.parseError
parseError(e) ==
    IF e.parsed THEN e
    ELSE [e EXCEPT !.parsed = TRUE,
                   !.errorType = IF @ = "none" THEN "error" ELSE @]

addError_again(queue, e, libraryID) ==
    LET e1 == [e EXCEPT !.added = TRUE,
                        !.libraryID = IF libraryID # NoLib THEN libraryID ELSE @]
        e2 == parseError(e1)
    IN [queue |-> Append(queue, e2), e |-> e2]

\* this.addError: the queue and the (mutated) error object after the call
addError(queue, e, libraryID) ==
    IF e.added THEN [queue |-> queue, e |-> e]
    ELSE LET e1 == [e EXCEPT !.added = TRUE,
                             !.libraryID = IF libraryID # NoLib THEN libraryID ELSE @]
             e2 == parseError(e1)
         IN [queue |-> Append(queue, e2), e |-> e2]

\* this.getErrorsByLibrary
getErrorsByLibrary(queue, libraryID) ==
    SelectSeq(queue, LAMBDA e : e.libraryID = libraryID)

\* Zotero.Utilities.arrayDiff(a, b): the elements of a that are not in b
arrayDiff(a, b) ==
    SelectSeq(a, LAMBDA x : \A k \in 1..Len(b) : b[k] # x)

SeqSet(s) == {s[k] : k \in 1..Len(s)}

\* ------------------------------------------------------------------- state
VARIABLES
    syncInProgress,   \* _syncInProgress
    errors,           \* _errors
    firstInSession,   \* _firstInSession
    callerStopped,    \* this.caller.stop() has been called
    groups,           \* Zotero.Groups: group ID -> local version, 0 if absent
    pc,               \* per invocation: the suspension point it waits at
    options,          \* per invocation: the options object passed to sync()
    frame,            \* per invocation: the local variables of sync()
    hist,             \* per invocation: what the invocation has done so far
    sink,             \* errors handed to options.onError since the last sync() call
    errObjs,          \* the error objects addError is called with (SpecErr)
    primary,          \* a call of getPrimaryErrorType: argument and result (SpecPrimary)
    storage,          \* _storageControllers, and the controllers constructed so far
    env               \* apiKey: an API key is stored; locked: Zotero.locked;
                      \* timer: how _autoSyncTimer is set ("off": not at all)

vars == <<syncInProgress, errors, firstInSession, callerStopped, groups,
          pc, options, frame, hist, sink, errObjs, primary, storage, env>>

\* ------------------------------------------------------ storage controllers
\* the storage modes ('zfs', 'webdav')
Modes == {"zfs", "webdav"}

\* the storage modes of the libraries of the sessions: file storage of the
\* Zotero server for all of them (both modes are called for in SpecStorage)
SessionModes == {"zfs"}

\* no entry of _storageControllers
NoController == 0

\* What the last call of getStorageController or resetStorageController was
\* (SpecStorage): the operation, its mode and, for a get, the options it was
\* passed, the instance it returned and whether it constructed it.
NoStorageCall == [op |-> "none"]

\* controllers[mode] is the instance cached for the mode (instances are
\* numbered in the order of their construction, made counts them), and
\* returned[mode] the instances that getStorageController has returned for
\* the mode since its last reset (SpecStorage).
Storage0 ==
    [controllers |-> [mode \in Modes |-> NoController], made |-> 0,
     returned |-> [mode \in Modes |-> {}], call |-> NoStorageCall]

getStorageController_noCache(st, mode, opts) ==
    [st |-> [st EXCEPT !.controllers[mode] = st.made + 1, !.made = @ + 1],
     ret |-> st.made + 1, constructed |-> TRUE]

\* this.getStorageController: the cache afterwards and the instance returned
\* (new modeClass(options) is instance number made + 1)
getStorageController(st, mode, opts) ==
    IF st.controllers[mode] # NoController
    THEN [st |-> st, ret |-> st.controllers[mode], constructed |-> FALSE]
    ELSE [st |-> [st EXCEPT !.controllers[mode] = st.made + 1, !.made = @ + 1],
          ret |-> st.made + 1, constructed |-> TRUE]

\* this.resetStorageController
resetStorageController(st, mode) ==
    [st EXCEPT !.controllers[mode] = NoController]

NoKeyInfo == [userLibrary |-> FALSE, groups |-> "none"]

Frame0 ==
    [keyInfo |-> NoKeyInfo,
     engineFirstInSession |-> FALSE,
     librariesToSync |-> <<>>,
     attempt |-> 0,
     successfulLibraries |-> <<>>,
     libraries |-> <<>>,
     out |-> <<>>,
     idx |-> 0,
     tries |-> 0,
     thrown |-> 0,
     endFix |-> FALSE]

\* What the phases of an attempt were started with and returned (Null when
\* not known): dataOut and fileIn while the file phase runs; fileOut and
\* ftIn from the return of the file phase until the data phase of the next
\* attempt has returned.
Null == <<0>>
Events0 ==
    [dataOut |-> Null, fileIn |-> Null, fileOut |-> Null, ftIn |-> Null]

\* What the last step of an invocation was told by a storage engine, if it
\* was the return of one: the library, the libraries of the File phase, the
\* attempt, the tries left and the resync list before the answer, and the
\* answer (failed: the engine threw).
NoReport == [lib |-> NoLib]

\* What the last step of an invocation got from checkLibraries, if it was
\* the return of that call: the local groups before the call, the arguments,
\* the answers of the collaborators and the result.
NoResolution == [status |-> "none"]

\* What the last step of an invocation got from an engine, if it was the
\* return of engine.start(): the phase, the library and the outcome ("ok",
\* or how it threw; kind and fatal are those of a failure).  fullText is
\* what the sync.fulltext.enabled preference said ("on", "off"), if the last
\* step called _doFullTextSync.
NoEngine == [res |-> "none"]

Hist0 ==
    [marked |-> FALSE, endCalls |-> 0, restarts |-> 0, finish |-> 0,
     dataRuns |-> 0, resolved |-> Null, resync |-> Null, dropped |-> {},
     ev |-> Events0, report |-> NoReport, resolution |-> NoResolution,
     raised |-> 0, caught |-> "none", endIcons |-> FALSE,
     engine |-> NoEngine, fullText |-> "none"]

\* the part of the state one invocation reads and writes
M(i) ==
    [inProg |-> syncInProgress, errors |-> errors, first |-> firstInSession,
     stopped |-> callerStopped, groups |-> groups, sink |-> sink,
     storage |-> storage,
     pc |-> pc[i], opt |-> options[i], f |-> frame[i],
     h |-> [hist[i] EXCEPT !.report = NoReport, !.resolution = NoResolution,
                           !.engine = NoEngine, !.fullText = "none"]]

CommitEnv(i, m, e) ==
    /\ syncInProgress' = m.inProg
    /\ errors' = m.errors
    /\ firstInSession' = m.first
    /\ callerStopped' = m.stopped
    /\ groups' = m.groups
    /\ sink' = m.sink
    /\ pc' = [pc EXCEPT ![i] = m.pc]
    /\ options' = [options EXCEPT ![i] = m.opt]
    /\ frame' = [frame EXCEPT ![i] = m.f]
    /\ hist' = [hist EXCEPT ![i] = m.h]
    /\ env' = e
    /\ storage' = m.storage
    /\ UNCHANGED <<errObjs, primary>>

Commit(i, m) == CommitEnv(i, m, env)

\* the options objects callers pass
OptionsSet ==
    [background : BOOLEAN, onError : BOOLEAN, libraries : {<<>>},
     restartSync : {FALSE}, firstInSession : {FALSE}]

NoCall == [in |-> <<>>, out |-> "pending"]

\* the local versions of the groups (0: no such local group) when only the
\* groups 1..SessionGroups exist
SessionGroupVersions ==
    {gr \in [GroupIDs -> 0..MaxVersion] : \A g \in GroupIDs \ SessionGroupIDs : gr[g] = 0}

Options0 ==
    [background |-> FALSE, onError |-> FALSE, libraries |-> <<>>,
     restartSync |-> FALSE, firstInSession |-> FALSE]

Init ==
    /\ syncInProgress = FALSE
    /\ errors = <<>>
    /\ firstInSession = TRUE
    /\ callerStopped = FALSE
    /\ groups \in SessionGroupVersions
    /\ env \in [apiKey : BOOLEAN, locked : {FALSE}, timer : {"off"}]
    /\ pc = [i \in Invs |-> IF i = 1 THEN "idle" ELSE "off"]
    /\ options \in {o \in [Invs -> OptionsSet] :
                        \A i \in Invs \ {1} : o[i] = Options0}
    /\ frame = [i \in Invs |-> Frame0]
    /\ hist = [i \in Invs |-> Hist0]
    /\ sink = <<>>
    /\ errObjs = <<>>
    /\ primary = NoCall
    /\ storage = Storage0

\* --------------------------------------------------------------- teardown
\* this.end(options) up to its first yield: checkErrors(_errors, options)
\* walks the array that is the queue at the time of the call; the long tag
\* fixer is opened for a 413 tag error unless the sync is a background one
callEnd(m, at) ==
    [m EXCEPT !.pc = at, !.h.endCalls = @ + 1,
              !.f.endFix = /\ ~m.opt.background
                           /\ \E k \in 1..Len(m.errors) : m.errors[k].kind = "tag413"]

\* the finally block of sync(): yield this.end(options).  The locals of the
\* try block are not read any more, except the attempt counter (kept for
\* the properties).
syncFinally(m) ==
    callEnd([m EXCEPT !.f = [Frame0 EXCEPT !.attempt = m.f.attempt,
                                           !.thrown = m.f.thrown],
                      !.h.ev = Events0, !.h.resolved = Null,
                      !.h.resync = Null, !.h.dropped = {}, !.h.dataRuns = 0],
            "end")

syncCatch_keepQueue(m, e) ==
    LET offline == e.kind = "offline"
        e1 == IF offline THEN NewError(e.id, "offlineNotice", FALSE) ELSE e
        m1 == [m EXCEPT !.h.caught = e.kind]
    IN IF e1.kind = "cancel" THEN m1
       ELSE IF m.opt.onError THEN [m1 EXCEPT !.sink = Append(@, e1)]
       ELSE [m1 EXCEPT !.errors = addError(m.errors, e1, NoLib).queue]

\* the catch block of sync(); h.caught keeps the kind of the exception
syncCatch(m, e) ==
    LET offline == e.kind = "offline"
        e1 == IF offline THEN NewError(e.id, "offlineNotice", FALSE) ELSE e
        q == IF offline THEN <<>> ELSE m.errors
        m1 == [m EXCEPT !.h.caught = e.kind]
    IN IF e1.kind = "cancel" THEN [m1 EXCEPT !.errors = q]
       ELSE IF m.opt.onError THEN [m1 EXCEPT !.errors = q, !.sink = Append(@, e1)]
       ELSE [m1 EXCEPT !.errors = addError(q, e1, NoLib).queue]

\* an exception thrown inside the try block of sync()
syncThrow(m, kind) ==
    syncFinally(syncCatch([m EXCEPT !.f.thrown = @ + 1, !.h.raised = @ + 1],
                          NewError(m.f.thrown + 1, kind, FALSE)))

\* ------------------------------------------------------------ sync(): entry
\* sync() up to its first yield (purgeDataObjects)
syncEntry(m) ==
    LET m1 == [m EXCEPT !.errors = <<>>, !.f = Frame0, !.sink = <<>>,
                        !.h.raised = 0, !.h.caught = "none"]
    IN IF m.inProg
       THEN [m1 EXCEPT !.pc = "done"]
       ELSE [m1 EXCEPT !.inProg = TRUE, !.pc = "purgeDataObjects", !.h.marked = TRUE]

Call(i) ==
    /\ pc[i] = "idle"
    /\ Commit(i, syncEntry(M(i)))

\* yield Zotero.purgeDataObjects(true) returns or throws; it is outside the
\* try block, so an exception ends the coroutine without catch or finally
PurgeDataObjectsDone(i) ==
    /\ pc[i] = "purgeDataObjects"
    /\ \E ok \in BOOLEAN :
        Commit(i, IF ok THEN [M(i) EXCEPT !.pc = "getAPIKey"]
                        ELSE [M(i) EXCEPT !.pc = "done", !.f = Frame0, !.h.raised = @ + 1])

afterGetAPIKey_noCheck(m, apiKey) ==
    LET m1 == IF m.first
              THEN [m EXCEPT !.opt.firstInSession = TRUE, !.first = FALSE]
              ELSE m
    IN [m1 EXCEPT !.pc = "checkAccess"]

\* yield _getAPIKey() returns a key (or none) or throws
afterGetAPIKey(m, apiKey) ==
    IF ~apiKey THEN syncThrow(m, "apiKeyNotSet")
    ELSE LET m1 == IF m.first
                   THEN [m EXCEPT !.opt.firstInSession = TRUE, !.first = FALSE]
                   ELSE m
         IN [m1 EXCEPT !.pc = "checkAccess"]

GetAPIKeyDone(i) ==
    /\ pc[i] = "getAPIKey"
    /\ \/ Commit(i, afterGetAPIKey(M(i), env.apiKey))
       \/ Commit(i, syncThrow(M(i), "generic"))

AccessSet == [userLibrary : BOOLEAN, groups : {"none", "all", "some"}]
ThrowKinds == {"generic", "offline"}

\* yield this.checkAccess(client, options) returns the key info or throws
CheckAccessDone(i) ==
    /\ pc[i] = "checkAccess"
    /\ \/ \E access \in AccessSet :
            Commit(i, [M(i) EXCEPT !.f.keyInfo = access, !.pc = "checkEmptyLibrary"])
       \/ \E k \in ThrowKinds \cup {"apiKeyNotSet"} : Commit(i, syncThrow(M(i), k))

\* yield this.checkEmptyLibrary(keyInfo)
afterCheckEmptyLibrary(m, emptyLibraryContinue) ==
    IF ~emptyLibraryContinue THEN callEnd(m, "endEarly")
    ELSE [m EXCEPT !.pc = "checkUser"]

CheckEmptyLibraryDone(i) ==
    /\ pc[i] = "checkEmptyLibrary"
    /\ \E c \in BOOLEAN : Commit(i, afterCheckEmptyLibrary(M(i), c))

\* yield Zotero.Sync.Data.Local.checkUser(...): on success the engine options
\* are built and checkLibraries is called
afterCheckUser(m, ok) ==
    IF ~ok THEN callEnd(m, "endEarly")
    ELSE [m EXCEPT !.f.engineFirstInSession = m.first, !.pc = "checkLibraries"]

CheckUserDone(i) ==
    /\ pc[i] = "checkUser"
    /\ \E ok \in BOOLEAN : Commit(i, afterCheckUser(M(i), ok))

\* the rest of this.end(options) after checkErrors has returned: fix is
\* "none" (no fixer shown, or the dialog cancelled) or "fixed" (the
\* dialogButtonCallback ran to its end and set options.restartSync)
endFinish(m, fix) ==
    LET m1 == IF fix = "fixed" THEN [m EXCEPT !.opt.restartSync = TRUE] ELSE m
    IN [m1 EXCEPT !.errors = <<>>, !.inProg = FALSE, !.f.endFix = FALSE,
                  !.h.endIcons = ~m1.opt.restartSync,
                  !.pc = IF m.pc = "endEarly" THEN "earlyReturn" ELSE "afterEnd"]

\* this.end(options) rejects: an exception of the tag fixer leaves checkError.
\* Inside the try block it is caught; in the finally block it ends sync().
endThrow(m) ==
    IF m.pc = "endEarly" THEN syncThrow(m, "generic")
    ELSE [m EXCEPT !.pc = "done", !.f = Frame0, !.h.raised = @ + 1,
                   !.h.caught = "none"]

EndDone(i) ==
    /\ pc[i] \in {"endEarly", "end"}
    /\ \/ Commit(i, endFinish(M(i), "none"))
       \/ /\ frame[i].endFix
          /\ \/ /\ hist[i].restarts < MaxRestarts
                /\ Commit(i, endFinish(M(i), "fixed"))
             \/ Commit(i, endThrow(M(i)))

\* "return false" after the early this.end(options): the finally block runs
EarlyReturn(i) ==
    /\ pc[i] = "earlyReturn"
    /\ Commit(i, syncFinally([M(i) EXCEPT !.h.endIcons = FALSE]))

afterEnd_notifies(m) ==
    IF m.opt.restartSync
    THEN syncEntry([m EXCEPT !.opt.restartSync = FALSE, !.h.restarts = @ + 1,
                             !.h.finish = @ + 1, !.h.endIcons = FALSE])
    ELSE [m EXCEPT !.pc = "done", !.f = Frame0, !.h.finish = @ + 1,
                   !.h.caught = "none", !.h.endIcons = FALSE]

\* the finally block after its this.end(options)
afterEnd(m) ==
    IF m.opt.restartSync
    THEN syncEntry([m EXCEPT !.opt.restartSync = FALSE, !.h.restarts = @ + 1,
                             !.h.endIcons = FALSE])
    ELSE [m EXCEPT !.pc = "done", !.f = Frame0, !.h.finish = @ + 1,
                   !.h.caught = "none", !.h.endIcons = FALSE]

AfterEnd(i) ==
    /\ pc[i] = "afterEnd"
    /\ Commit(i, afterEnd(M(i)))

\* ---------------------------------------------------------- checkLibraries
\* the elements of a set of numbers in ascending order
RECURSIVE SortedSeq(_)
SortedSeq(S) ==
    IF S = {} THEN <<>>
    ELSE LET x == CHOOSE y \in S : \A z \in S : y <= z
         IN <<x>> \o SortedSeq(S \ {x})

\* [...new Set(libraries)]: duplicates removed, first occurrences kept
RECURSIVE Uniq(_)
Uniq(s) ==
    IF s = <<>> THEN <<>>
    ELSE LET r == Uniq(SubSeq(s, 1, Len(s) - 1))
         IN IF s[Len(s)] \in SeqSet(r) THEN r ELSE Append(r, s[Len(s)])

LibraryIDs == {userLibraryID, publicationsLibraryID} \cup {GroupLibraryID(g) : g \in GroupIDs}

\* Zotero.Libraries.get(libraryID).libraryType
libraryType(l) ==
    IF l = userLibraryID THEN "user"
    ELSE IF l = publicationsLibraryID THEN "publications" ELSE "group"

\* Zotero.Groups.getGroupIDFromLibraryID
GroupIDFromLibraryID(l) == l - publicationsLibraryID

\* What the collaborators of one checkLibraries call answer: the skip-lists
\* (Zotero.Sync.Data.Local), the remote group versions (0: no such remote
\* group), the answer to the prompt for each remotely missing group, whether
\* getGroup finds the group (its version is then the remote one), the answer
\* of checkLibraryForAccess, and the API call that fails, if any.
ResolveInputs ==
    [skippedLibraries : SUBSET {userLibraryID, publicationsLibraryID},
     skippedGroups : SUBSET GroupIDs,
     remote : [GroupIDs -> 0..MaxVersion],
     decide : [GroupIDs -> {"remove", "cancel", "keep"}],
     info : [GroupIDs -> BOOLEAN],
     keepGoing : [GroupIDs -> BOOLEAN],
     fail : {"none", "getGroupVersions", "getGroup"},
     failKind : {"generic", "offline"}]

Resolved0(gr) ==
    [status |-> "ok", kind |-> "none", libraries |-> <<>>, groups |-> gr,
     fetchedVersions |-> FALSE, groupsToDownload |-> <<>>,
     remotelyMissingGroups |-> <<>>, prompted |-> <<>>, cancelled |-> FALSE,
     erased |-> <<>>, fetched |-> <<>>, saved |-> <<>>]

accessDenied_groupsOnly(gr, access, libraries) ==
    \E k \in 1..Len(libraries) :
        /\ libraryType(libraries[k]) = "group"
        /\ gr[GroupIDFromLibraryID(libraries[k])] = 0

\* lines 316-324: a requested library that does not exist locally (the
\* libraryType of nothing is read) or that the key has no access to
accessDenied(gr, access, libraries) ==
    \E k \in 1..Len(libraries) :
        \/ /\ libraryType(libraries[k]) = "group"
           /\ gr[GroupIDFromLibraryID(libraries[k])] = 0
        \/ /\ libraryType(libraries[k]) \in {"user", "publications"}
           /\ ~access.userLibrary

outdated_never(localVersion, remoteVersion) == FALSE

\* lines 361 and 375: group.version < remoteGroupVersions[id]
outdated(localVersion, remoteVersion) == localVersion < remoteVersion

\* lines 354-380: the loop over the remote groups, in key order
RECURSIVE scanRemote(_, _, _, _, _, _)
scanRemote(ids, syncAll, gr, remote, libraries, toDownload) ==
    IF ids = <<>> THEN [libraries |-> libraries, groupsToDownload |-> toDownload]
    ELSE LET id == Head(ids)
             exists == gr[id] > 0
             rest == Tail(ids)
         IN IF syncAll
            THEN IF ~exists \/ outdated(gr[id], remote[id])
                 THEN scanRemote(rest, syncAll, gr, remote, libraries, Append(toDownload, id))
                 ELSE scanRemote(rest, syncAll, gr, remote,
                                 Append(libraries, GroupLibraryID(id)), toDownload)
            ELSE IF ~exists \/ GroupLibraryID(id) \notin SeqSet(libraries)
                 THEN scanRemote(rest, syncAll, gr, remote, libraries, toDownload)
                 ELSE IF outdated(gr[id], remote[id])
                      THEN scanRemote(rest, syncAll, gr, remote, libraries, Append(toDownload, id))
                      ELSE scanRemote(rest, syncAll, gr, remote, libraries, toDownload)

\* lines 385-396: the local groups that are looked for in the remote set
localGroupsToCheck(syncAll, gr, libraries, skippedGroups) ==
    IF syncAll
    THEN SelectSeq(SortedSeq({g \in GroupIDs : gr[g] > 0}),
                   LAMBDA g : g \notin skippedGroups)
    ELSE LET gl == SelectSeq(libraries, LAMBDA l : libraryType(l) = "group")
         IN [k \in 1..Len(gl) |-> GroupIDFromLibraryID(gl[k])]

RECURSIVE promptMissing_cancelKeeps(_, _, _, _)
promptMissing_cancelKeeps(missing, decide, prompted, removed) ==
    IF missing = <<>>
    THEN [cancelled |-> FALSE, prompted |-> prompted, removed |-> removed]
    ELSE LET g == Head(missing)
         IN promptMissing_cancelKeeps(
                Tail(missing), decide, Append(prompted, g),
                IF decide[g] = "remove" THEN Append(removed, g) ELSE removed)

\* lines 420-457: the prompts, in order; "cancel" ends the loop
RECURSIVE promptMissing(_, _, _, _)
promptMissing(missing, decide, prompted, removed) ==
    IF missing = <<>>
    THEN [cancelled |-> FALSE, prompted |-> prompted, removed |-> removed]
    ELSE LET g == Head(missing)
         IN IF decide[g] = "cancel"
            THEN [cancelled |-> TRUE, prompted |-> Append(prompted, g), removed |-> removed]
            ELSE promptMissing(Tail(missing), decide, Append(prompted, g),
                               IF decide[g] = "remove" THEN Append(removed, g) ELSE removed)

eraseGroups_firstOnly(gr, removed) ==
    [g \in GroupIDs |-> IF removed # <<>> /\ g = Head(removed) THEN 0 ELSE gr[g]]

\* lines 460-465: group.erase() in a transaction of its own for each of the
\* removed groups; the local groups afterwards
eraseGroups(gr, removed) ==
    [g \in GroupIDs |-> IF g \in SeqSet(removed) THEN 0 ELSE gr[g]]

\* lines 470-501: the download loop; r is the result so far
RECURSIVE download(_, _, _)
download(todo, in, r) ==
    IF todo = <<>> \/ r.status # "ok" THEN r
    ELSE LET g == Head(todo)
             r1 == [r EXCEPT !.fetched = Append(@, g)]
         IN IF in.fail = "getGroup"
            THEN [r EXCEPT !.status = "throw", !.kind = in.failKind]
            ELSE IF ~in.info[g]
            THEN [r1 EXCEPT !.status = "throw", !.kind = "generic"]
            ELSE IF r.groups[g] > 0 /\ ~in.keepGoing[g]
            THEN download(Tail(todo), in, r1)
            ELSE download(Tail(todo), in,
                          [r1 EXCEPT !.groups[g] = in.remote[g],
                                     !.saved = Append(@, g),
                                     !.libraries = Append(@, GroupLibraryID(g))])

seedLibraries_noSkip(access, skippedLibraries) ==
    IF access.userLibrary THEN <<userLibraryID, publicationsLibraryID>> ELSE <<>>

\* lines 305-313: the libraries a sync of everything starts from
seedLibraries(access, skippedLibraries) ==
    IF access.userLibrary
    THEN arrayDiff(<<userLibraryID, publicationsLibraryID>>, SortedSeq(skippedLibraries))
    ELSE <<>>

\* this.checkLibraries(client, options, keyInfo, libraries) with the local
\* groups gr: the returned array or the exception, the local groups after
\* the call, and what the call did on the way
checkLibraries(gr, access, requested, in) ==
    LET syncAll == requested = <<>>
        libraries0 ==
            IF syncAll THEN seedLibraries(access, in.skippedLibraries)
            ELSE requested
        r0 == Resolved0(gr)
    IN
    IF ~syncAll /\ accessDenied(gr, access, requested)
    THEN [r0 EXCEPT !.status = "throw", !.kind = "generic"]
    ELSE IF access.groups = "some"
    THEN [r0 EXCEPT !.status = "throw", !.kind = "generic"]
    ELSE IF access.groups = "all" /\ in.fail = "getGroupVersions"
    THEN [r0 EXCEPT !.status = "throw", !.kind = in.failKind]
    ELSE
    LET groupAccess == access.groups = "all"
        remoteAll == SortedSeq({g \in GroupIDs : in.remote[g] > 0})
        remoteGroupIDs ==
            IF syncAll THEN arrayDiff(remoteAll, SortedSeq(in.skippedGroups))
            ELSE remoteAll
        scan == IF groupAccess
                THEN scanRemote(remoteGroupIDs, syncAll, gr, in.remote, libraries0, <<>>)
                ELSE [libraries |-> libraries0, groupsToDownload |-> <<>>]
        missing ==
            IF groupAccess
            THEN arrayDiff(localGroupsToCheck(syncAll, gr, scan.libraries, in.skippedGroups),
                           remoteGroupIDs)
            ELSE SortedSeq({g \in GroupIDs : gr[g] > 0})
        p == promptMissing(missing, in.decide, <<>>, <<>>)
        r1 == [r0 EXCEPT !.fetchedVersions = groupAccess,
                         !.groupsToDownload = scan.groupsToDownload,
                         !.remotelyMissingGroups = missing,
                         !.prompted = p.prompted,
                         !.cancelled = p.cancelled]
    IN IF p.cancelled THEN r1
       ELSE LET removedLibraryIDs ==
                    [k \in 1..Len(p.removed) |-> GroupLibraryID(p.removed[k])]
                r2 == [r1 EXCEPT !.erased = p.removed,
                                 !.groups = eraseGroups(gr, p.removed),
                                 !.libraries = arrayDiff(scan.libraries, removedLibraryIDs)]
                r3 == download(scan.groupsToDownload, in, r2)
            IN IF r3.status = "ok" THEN [r3 EXCEPT !.libraries = Uniq(@)] ELSE r3

\* ------------------------------------------------------------ phase runners
\* engineOptions.onError (lines 145-152)
engineOnError(m, e) ==
    IF m.opt.onError THEN [m EXCEPT !.sink = Append(@, e)]
    ELSE [m EXCEPT !.errors = addError(m.errors, e, NoLib).queue]

phaseCatch_haltsAlways(m, kind, fatal) ==
    LET e == NewError(m.f.thrown + 1, kind, fatal)
        m1 == engineOnError([m EXCEPT !.f.thrown = @ + 1, !.h.raised = @ + 1], e)
    IN [m |-> [m1 EXCEPT !.stopped = TRUE], halt |-> TRUE]

\* the catch block of a phase runner after the cancellation and 412 cases:
\* the error is reported; .halt says whether the loop is left
phaseCatch(m, kind, fatal) ==
    LET e == NewError(m.f.thrown + 1, kind, fatal)
        m1 == engineOnError([m EXCEPT !.f.thrown = @ + 1, !.h.raised = @ + 1], e)
    IN IF stopOnError \/ e.fatal
       THEN [m |-> [m1 EXCEPT !.stopped = TRUE], halt |-> TRUE]
       ELSE [m |-> m1, halt |-> FALSE]

\* What a step reads from the preferences: sync.fulltext.enabled, and the
\* storage mode Zotero.Sync.Storage.Local.getModeForLibrary answers for the
\* library the File phase turns to.
Prefs == [fullText : BOOLEAN, storageMode : SessionModes]

\* lines 570-571: the File phase gets the storage controller of the library
\* it turns to
fileController(m, mode) ==
    [m EXCEPT !.storage = getStorageController(@, mode, m.opt).st]

\* what the engines answer when they fail: <<kind, fatal>>
EngineFailures == {<<"generic", FALSE>>, <<"generic", TRUE>>, <<"tag413", FALSE>>}
StorageResults == [syncRequired : BOOLEAN, fileSyncRequired : BOOLEAN]

tooManyAttempts_late(attempt) == attempt > MaxAttempts + 1

\* line 176
tooManyAttempts(attempt) == attempt > MaxAttempts

\* _doDataSync(librariesToSync, engineOptions) up to its first yield
startDataSync(m) ==
    [m EXCEPT !.pc = "dataEngine",
              !.f.libraries = m.f.librariesToSync, !.f.out = <<>>, !.f.idx = 1,
              !.h.dataRuns = @ + 1,
              !.h.ev.dataOut = Null, !.h.ev.fileIn = Null]

\* the head of the while loop of sync() (lines 175-180)
loopTop(m) ==
    IF m.f.librariesToSync = <<>> THEN syncFinally(m)
    ELSE IF tooManyAttempts(m.f.attempt) THEN syncThrow(m, "tooManyAttempts")
    ELSE startDataSync(m)

\* lines 188-191 and 195-198: a non-empty resync set starts another attempt
nextAttempt(m, resync) ==
    loopTop([m EXCEPT !.f.attempt = @ + 1, !.h.resync = resync])

\* the return of _doFullTextSync to sync() (lines 194-199)
afterFullTextSync(m) ==
    LET res == m.f.out
        m1 == [m EXCEPT !.f.librariesToSync = res,
                        !.f.libraries = <<>>, !.f.out = <<>>, !.f.idx = 0]
    IN IF res # <<>> THEN nextAttempt(m1, res) ELSE syncFinally(m1)

\* line 194: the libraries handed to the full-text phase
fullTextInput(f) == f.successfulLibraries

\* _doFullTextSync(libraries, options) up to its first yield; enabled is the
\* sync.fulltext.enabled preference
startFullTextSync(m, enabled) ==
    LET libs == fullTextInput(m.f)
        m1 == [m EXCEPT !.f.libraries = libs, !.f.out = <<>>, !.f.idx = 1,
                        !.h.ev.ftIn = libs,
                        !.h.fullText = IF enabled THEN "on" ELSE "off"]
    IN IF ~enabled \/ libs = <<>> THEN afterFullTextSync(m1)
       ELSE [m1 EXCEPT !.pc = "fullTextEngine"]

afterFileSync_noContinue(m, prefs) ==
    startFullTextSync([m EXCEPT !.f.librariesToSync = m.f.out,
                                !.h.ev = [Events0 EXCEPT !.fileOut = m.f.out],
                                !.f.libraries = <<>>, !.f.out = <<>>, !.f.idx = 0,
                                !.f.tries = 0],
                      prefs.fullText)

\* the return of _doFileSync to sync() (lines 187-191)
afterFileSync(m, prefs) ==
    LET res == m.f.out
        m1 == [m EXCEPT !.f.librariesToSync = res,
                        !.h.ev = [Events0 EXCEPT !.fileOut = res],
                        !.f.libraries = <<>>, !.f.out = <<>>, !.f.idx = 0,
                        !.f.tries = 0]
    IN IF res # <<>> THEN nextAttempt(m1, res) ELSE startFullTextSync(m1, prefs.fullText)

fileInput_all(f) == f.librariesToSync

\* line 187: the libraries handed to the file phase
fileInput(f) == f.out

\* _doFileSync(nextLibraries, engineOptions) up to its first yield: the first
\* storage engine of the first library has been started (tries-- done)
startFileSync(m, prefs) ==
    LET libs == fileInput(m.f)
        m1 == [m EXCEPT !.f.libraries = libs, !.f.out = <<>>, !.f.idx = 1,
                        !.f.tries = FileTries - 1, !.h.ev.fileIn = libs]
    IN IF libs = <<>> THEN afterFileSync(m1, prefs)
       ELSE fileController([m1 EXCEPT !.pc = "fileEngine"], prefs.storageMode)

afterDataSync_keepsFailed(m, prefs) ==
    LET nextLibraries == m.f.out
        failed == arrayDiff(m.f.librariesToSync, nextLibraries)
        m1 == [m EXCEPT !.h.ev = [Events0 EXCEPT !.dataOut = nextLibraries],
                        !.h.resync = Null,
                        !.h.dropped = @ \cup SeqSet(failed)]
    IN startFileSync(m1, prefs)

\* the return of _doDataSync to sync() (lines 180-187)
afterDataSync(m, prefs) ==
    LET nextLibraries == m.f.out
        failed == arrayDiff(m.f.librariesToSync, nextLibraries)
        m1 == [m EXCEPT !.f.successfulLibraries = arrayDiff(@, failed),
                        !.h.ev = [Events0 EXCEPT !.dataOut = nextLibraries],
                        !.h.resync = Null,
                        !.h.dropped = @ \cup SeqSet(failed)]
    IN startFileSync(m1, prefs)

\* lines 548-553: after the loop of _doDataSync
dataLoopEnd(m, prefs) ==
    IF m.f.libraries = <<>> \/ m.f.out # <<>>
    THEN [m EXCEPT !.pc = "updateLastSyncTime"]
    ELSE afterDataSync(m, prefs)

\* the for loop of a phase runner goes on with the next library, if any
moreLibraries(f) == f.idx < Len(f.libraries)

afterDataEngine_cancelAborts(m, res, fail, prefs) ==
    LET l == m.f.libraries[m.f.idx]
        next(mm) == IF moreLibraries(mm.f) THEN [mm EXCEPT !.f.idx = @ + 1]
                    ELSE dataLoopEnd(mm, prefs)
    IN CASE res = "ok" -> next([m EXCEPT !.f.out = Append(@, l)])
         [] res \in {"cancelNext", "cancel"} ->
                syncFinally(syncCatch(m, NewError(m.f.thrown + 1, "cancel", FALSE)))
         [] res = "fail" ->
                LET c == phaseCatch(m, fail[1], fail[2])
                IN IF c.halt THEN dataLoopEnd(c.m, prefs) ELSE next(c.m)

\* yield engine.start() of the data engine of library libraries[idx]
\* returned ("ok"), or threw a cancellation or the failure fail
afterDataEngine(m, res, fail, prefs) ==
    LET l == m.f.libraries[m.f.idx]
        next(mm) == IF moreLibraries(mm.f) THEN [mm EXCEPT !.f.idx = @ + 1]
                    ELSE dataLoopEnd(mm, prefs)
    IN CASE res = "ok" -> next([m EXCEPT !.f.out = Append(@, l)])
         [] res = "cancelNext" -> next(m)
         [] res = "cancel" ->
                syncFinally(syncCatch(m, NewError(m.f.thrown + 1, "cancel", FALSE)))
         [] res = "fail" ->
                LET c == phaseCatch(m, fail[1], fail[2])
                IN IF c.halt THEN dataLoopEnd(c.m, prefs) ELSE next(c.m)

\* the outcome of the engine of the library the loop of invocation i is at
engineReport(i, phase, res, fail) ==
    [phase |-> phase, lib |-> frame[i].libraries[frame[i].idx], res |-> res,
     kind |-> fail[1], fatal |-> fail[2]]

NoFailure == <<"none", FALSE>>

DataEngineDone(i) ==
    /\ pc[i] = "dataEngine"
    /\ \E prefs \in Prefs :
        \/ \E res \in {"ok", "cancelNext", "cancel"} :
                Commit(i, [afterDataEngine(M(i), res, NoFailure, prefs)
                             EXCEPT !.h.engine = engineReport(i, "data", res, NoFailure)])
        \/ /\ frame[i].thrown < MaxErrors
           /\ \E fail \in EngineFailures :
                Commit(i, [afterDataEngine(M(i), "fail", fail, prefs)
                             EXCEPT !.h.engine = engineReport(i, "data", "fail", fail)])

\* yield Zotero.Sync.Data.Local.updateLastSyncTime() returns or throws
UpdateLastSyncTimeDone(i) ==
    /\ pc[i] = "updateLastSyncTime"
    /\ \/ \E prefs \in Prefs : Commit(i, afterDataSync(M(i), prefs))
       \/ \E k \in ThrowKinds : Commit(i, syncThrow(M(i), k))

storageResultAction_fileFirst(results) ==
    IF results.fileSyncRequired THEN "retry"
    ELSE IF results.syncRequired THEN "resync"
    ELSE "break"

storageResultAction_swapped(results) ==
    IF results.fileSyncRequired THEN "resync"
    ELSE IF results.syncRequired THEN "retry"
    ELSE "break"

\* lines 581-588: what the loop of _doFileSync does with the engine's results
storageResultAction(results) ==
    IF results.syncRequired THEN "resync"
    ELSE IF results.fileSyncRequired THEN "retry"
    ELSE "break"

afterFileEngine_fatalBudget(m, res, results, fail, prefs) ==
    LET l == m.f.libraries[m.f.idx]
        next(mm) == IF moreLibraries(mm.f)
                    THEN fileController([mm EXCEPT !.f.idx = @ + 1,
                                                   !.f.tries = FileTries - 1],
                                        prefs.storageMode)
                    ELSE afterFileSync(mm, prefs)
        caught(kind, fatal) ==
            LET c == phaseCatch(m, kind, fatal)
            IN IF c.halt THEN afterFileSync(c.m, prefs) ELSE next(c.m)
        act == storageResultAction(results)
    IN IF res = "fail" THEN caught(fail[1], fail[2])
       ELSE CASE act = "resync" -> next([m EXCEPT !.f.out = Append(@, l)])
              [] act = "retry" ->
                    IF m.f.tries = 0 THEN caught("tooManyFileSyncs", TRUE)
                    ELSE [m EXCEPT !.f.tries = @ - 1]
              [] act = "break" -> next(m)

\* yield engine.start() of the storage engine of library libraries[idx]
\* returned results (res = "ok") or threw the failure fail
afterFileEngine(m, res, results, fail, prefs) ==
    LET l == m.f.libraries[m.f.idx]
        next(mm) == IF moreLibraries(mm.f)
                    THEN fileController([mm EXCEPT !.f.idx = @ + 1,
                                                   !.f.tries = FileTries - 1],
                                        prefs.storageMode)
                    ELSE afterFileSync(mm, prefs)
        caught(kind, fatal) ==
            LET c == phaseCatch(m, kind, fatal)
            IN IF c.halt THEN afterFileSync(c.m, prefs) ELSE next(c.m)
        act == storageResultAction(results)
    IN IF res = "fail" THEN caught(fail[1], fail[2])
       ELSE CASE act = "resync" -> next([m EXCEPT !.f.out = Append(@, l)])
              [] act = "retry" ->
                    IF m.f.tries = 0 THEN caught("tooManyFileSyncs", FALSE)
                    ELSE [m EXCEPT !.f.tries = @ - 1]
              [] act = "break" -> next(m)

NoResults == [syncRequired |-> FALSE, fileSyncRequired |-> FALSE]

storageReport(f, results, failed) ==
    [lib |-> f.libraries[f.idx], input |-> f.libraries, attempt |-> f.attempt,
     tries |-> f.tries, out |-> f.out, results |-> results, failed |-> failed]

FileEngineDone(i) ==
    /\ pc[i] = "fileEngine"
    /\ \E prefs \in Prefs :
        \/ \E results \in StorageResults :
                Commit(i, [afterFileEngine(M(i), "ok", results, NoFailure, prefs)
                             EXCEPT !.h.report = storageReport(frame[i], results, FALSE),
                                    !.h.engine = engineReport(i, "file", "ok", NoFailure)])
        \/ /\ frame[i].thrown < MaxErrors
           /\ \E fail \in EngineFailures :
                Commit(i, [afterFileEngine(M(i), "fail", NoResults, fail, prefs)
                             EXCEPT !.h.report = storageReport(frame[i], NoResults, TRUE),
                                    !.h.engine = engineReport(i, "file", "fail", fail)])

afterFullTextEngine_reports412(m, res, fail) ==
    LET l == m.f.libraries[m.f.idx]
        next(mm) == IF moreLibraries(mm.f) THEN [mm EXCEPT !.f.idx = @ + 1]
                    ELSE afterFullTextSync(mm)
    IN CASE res = "ok" -> next(m)
         [] res = "412" ->
                LET c == phaseCatch([m EXCEPT !.f.out = Append(@, l)], "generic", FALSE)
                IN next(c.m)
         [] res = "fail" ->
                LET c == phaseCatch(m, fail[1], fail[2])
                IN IF c.halt THEN afterFullTextSync(c.m) ELSE next(c.m)

\* yield engine.start() of the full-text engine of library libraries[idx]
\* returned ("ok"), threw a 412 response ("412") or the failure fail
afterFullTextEngine(m, res, fail) ==
    LET l == m.f.libraries[m.f.idx]
        next(mm) == IF moreLibraries(mm.f) THEN [mm EXCEPT !.f.idx = @ + 1]
                    ELSE afterFullTextSync(mm)
    IN CASE res = "ok" -> next(m)
         [] res = "412" -> next([m EXCEPT !.f.out = Append(@, l)])
         [] res = "fail" ->
                LET c == phaseCatch(m, fail[1], fail[2])
                IN IF c.halt THEN afterFullTextSync(c.m) ELSE next(c.m)

FullTextEngineDone(i) ==
    /\ pc[i] = "fullTextEngine"
    /\ \/ \E res \in {"ok", "412"} :
            Commit(i, [afterFullTextEngine(M(i), res, NoFailure)
                         EXCEPT !.h.engine = engineReport(i, "fullText", res, NoFailure)])
       \/ /\ frame[i].thrown < MaxErrors
          /\ \E fail \in EngineFailures :
                Commit(i, [afterFullTextEngine(M(i), "fail", fail)
                             EXCEPT !.h.engine = engineReport(i, "fullText", "fail", fail)])

\* The answers in ResolveInputs that a checkLibraries call with these
\* arguments reads, when the groups G exist; the answers it does not read
\* are left at a default.  The skip-list of groups is the one that is
\* stored when all libraries are synced, whether the call gets to line 344,
\* where it is read, or not.
ResolveInputsOver(G, gr, access, requested) ==
    LET syncAll == requested = <<>>
        groupAll == access.groups = "all"
        none == [g \in GroupIDs |-> 0]
        yes == [g \in GroupIDs |-> TRUE]
        keep == [g \in GroupIDs |-> "keep"]
        SkL == IF syncAll /\ access.userLibrary
               THEN SUBSET {userLibraryID, publicationsLibraryID} ELSE {{}}
        SkG == IF syncAll /\ access.groups # "some" THEN SUBSET G ELSE {{}}
        Rem == IF groupAll
               THEN {rem \in [GroupIDs -> 0..MaxVersion] :
                        \A g \in GroupIDs \ G : rem[g] = 0}
               ELSE {none}
        base(skL, skG, rem) ==
            [skippedLibraries |-> skL, skippedGroups |-> skG, remote |-> rem,
             decide |-> keep, info |-> yes, keepGoing |-> yes,
             fail |-> "none", failKind |-> "generic"]
        for(b) ==
            LET plan == checkLibraries(gr, access, requested, b)
                missing == SeqSet(plan.remotelyMissingGroups)
                todo == SeqSet(plan.groupsToDownload)
            IN {in \in
                  [skippedLibraries : {b.skippedLibraries},
                   skippedGroups : {b.skippedGroups},
                   remote : {b.remote},
                   decide : {d \in [GroupIDs -> {"remove", "cancel", "keep"}] :
                                \A g \in GroupIDs \ missing : d[g] = "keep"},
                   info : {f \in [GroupIDs -> BOOLEAN] :
                                \A g \in GroupIDs \ todo : f[g]},
                   keepGoing : {f \in [GroupIDs -> BOOLEAN] :
                                \A g \in GroupIDs : g \notin todo \/ gr[g] = 0 => f[g]},
                   fail : {"none"}
                          \cup (IF plan.fetchedVersions THEN {"getGroupVersions"} ELSE {})
                          \cup (IF todo # {} THEN {"getGroup"} ELSE {}),
                   failKind : {"generic", "offline"}] :
                  in.fail = "none" => in.failKind = "generic"}
    IN UNION {for(base(skL, skG, rem)) : skL \in SkL, skG \in SkG, rem \in Rem}

\* yield this.checkLibraries(...) returned or threw (lines 157-174); the
\* items of the libraries are loaded and the loop is entered
afterCheckLibraries(m, r, prefs) ==
    LET m1 == [m EXCEPT !.groups = r.groups, !.f.keyInfo = NoKeyInfo]
    IN IF r.status = "throw" THEN syncThrow(m1, r.kind)
       ELSE loopTop([m1 EXCEPT !.opt.libraries = r.libraries,
                               !.f.librariesToSync = r.libraries,
                               !.f.attempt = 1,
                               !.f.successfulLibraries = r.libraries,
                               !.h.resolved = r.libraries])

ResolveInputsFor(gr, access, requested) ==
    ResolveInputsOver(SessionGroupIDs, gr, access, requested)

\* the checkLibraries call of sync() returns or throws, the groups G existing
CheckLibrariesOver(i, G) ==
    /\ pc[i] = "checkLibraries"
    /\ \E in \in ResolveInputsOver(G, groups, frame[i].keyInfo, options[i].libraries),
          prefs \in Prefs :
         LET r == checkLibraries(groups, frame[i].keyInfo, options[i].libraries, in)
         IN /\ Len(r.libraries) <= MaxLibs
            /\ Commit(i, [afterCheckLibraries(M(i), r, prefs)
                            EXCEPT !.h.resolution =
                                [status |-> r.status, gr |-> groups,
                                 access |-> frame[i].keyInfo,
                                 requested |-> options[i].libraries,
                                 in |-> in, out |-> r]])

CheckLibrariesDone(i) == CheckLibrariesOver(i, SessionGroupIDs)

Next ==
    \E i \in Invs :
        \/ Call(i)
        \/ PurgeDataObjectsDone(i)
        \/ GetAPIKeyDone(i)
        \/ CheckAccessDone(i)
        \/ CheckEmptyLibraryDone(i)
        \/ CheckUserDone(i)
        \/ CheckLibrariesDone(i)
        \/ DataEngineDone(i)
        \/ UpdateLastSyncTimeDone(i)
        \/ FileEngineDone(i)
        \/ FullTextEngineDone(i)
        \/ EndDone(i)
        \/ EarlyReturn(i)
        \/ AfterEnd(i)

Spec == Init /\ [][Next]_vars

\* ------------------------------------------------- overlapping invocations
\* the invocation has set _syncInProgress and its sync() has not yet left
\* the this.end(options) of its finally block
InSession(i) ==
    pc[i] \in {"purgeDataObjects", "getAPIKey", "checkAccess", "checkEmptyLibrary",
               "checkUser", "checkLibraries", "dataEngine", "updateLastSyncTime",
               "fileEngine", "fullTextEngine", "endEarly", "earlyReturn", "end"}

\* a further sync() call (a click, a timer fire) made while some invocation
\* is in its session
CallDuring(i) ==
    /\ pc[i] = "waiting"
    /\ \E j \in Invs : InSession(j)
    /\ Commit(i, syncEntry(M(i)))

InitConc ==
    /\ syncInProgress = FALSE
    /\ errors = <<>>
    /\ firstInSession = TRUE
    /\ callerStopped = FALSE
    /\ groups \in SessionGroupVersions
    /\ env \in [apiKey : BOOLEAN, locked : {FALSE}, timer : {"off"}]
    /\ pc = [i \in Invs |-> IF i = 1 THEN "idle" ELSE "waiting"]
    /\ options = [i \in Invs |-> [Options0 EXCEPT !.background = TRUE]]
    /\ frame = [i \in Invs |-> Frame0]
    /\ hist = [i \in Invs |-> Hist0]
    /\ sink = <<>>
    /\ errObjs = <<>>
    /\ primary = NoCall
    /\ storage = Storage0

NextConc == Next \/ \E i \in Invs : CallDuring(i)

SpecConc == InitConc /\ [][NextConc]_vars

\* ------------------------------------------------------- the error queue
\* error objects per run, and addError calls per object
MaxObjs == 2
MaxCalls == 2

ErrObjs == 1..MaxObjs
ErrorTypeSet == {"info", "warning", "error", "upgrade", "animate", "none"}

\* the runner with no sync() caller
Quiet ==
    /\ syncInProgress = FALSE
    /\ firstInSession = TRUE
    /\ callerStopped = FALSE
    /\ groups = [g \in GroupIDs |-> 0]
    /\ env = [apiKey |-> TRUE, locked |-> FALSE, timer |-> "off"]
    /\ pc = [i \in Invs |-> "off"]
    /\ options = [i \in Invs |-> Options0]
    /\ frame = [i \in Invs |-> Frame0]
    /\ hist = [i \in Invs |-> Hist0]
    /\ sink = <<>>

\* Error objects as they are thrown: not yet added or parsed, with or
\* without an errorType and a fatal flag.  calls counts the addError calls
\* made with each object.
InitErr ==
    /\ Quiet
    /\ errors = <<>>
    /\ primary = NoCall
    /\ storage = Storage0
    /\ \E ty \in [ErrObjs -> {"none", "warning"}], fa \in [ErrObjs -> BOOLEAN] :
         errObjs = [obj |-> [o \in ErrObjs |->
                                [NewError(o, "generic", fa[o]) EXCEPT !.errorType = ty[o]]],
                    calls |-> [o \in ErrObjs |-> 0]]

\* this.addError(e, libraryID) is called with object o
AddErrorCall(o, libraryID) ==
    /\ errObjs.calls[o] < MaxCalls
    /\ LET r == addError(errors, errObjs.obj[o], libraryID)
       IN /\ errors' = r.queue
          /\ errObjs' = [errObjs EXCEPT !.obj[o] = r.e, !.calls[o] = @ + 1]
    /\ UNCHANGED <<syncInProgress, firstInSession, callerStopped, groups, pc,
                   options, frame, hist, sink, primary, storage, env>>

NextErr == \E o \in ErrObjs, l \in {NoLib, userLibraryID} : AddErrorCall(o, l)

SpecErr == InitErr /\ [][NextErr]_vars

\* ---------------------------------------------------- getPrimaryErrorType
\* length of the lists getPrimaryErrorType is called with
MaxLen == 3

\* the errorTypes table (lines 851-859)
errorTypes_swapped ==
    [info |-> 1, warning |-> 3, error |-> 2, upgrade |-> 4, animate |-> -1]

errorTypes ==
    [info |-> 1, warning |-> 2, error |-> 3, upgrade |-> 4, animate |-> -1]

\* the for loop of getPrimaryErrorType from index i on; state "false" is the
\* JavaScript value false
RECURSIVE primaryLoop(_, _, _)
primaryLoop(errs, i, state) ==
    IF i > Len(errs) THEN state
    ELSE LET e == errs[i]
             errorType == e.errorType
         IN IF e.fatal THEN "error"
            ELSE IF errorType = "none" \/ errorTypes[errorType] < 0
            THEN primaryLoop(errs, i + 1, state)
            ELSE IF state = "false" \/ errorTypes[errorType] > errorTypes[state]
            THEN primaryLoop(errs, i + 1, errorType)
            ELSE primaryLoop(errs, i + 1, state)

getPrimaryErrorType(errs) == primaryLoop(errs, 1, "false")

ErrorArgs == [errorType : ErrorTypeSet, fatal : BOOLEAN]
ErrorLists == UNION {[1..n -> ErrorArgs] : n \in 0..MaxLen}

InitPrimary ==
    /\ Quiet
    /\ errors = <<>>
    /\ errObjs = <<>>
    /\ storage = Storage0
    /\ \E l \in ErrorLists : primary = [in |-> l, out |-> "pending"]

GetPrimaryErrorTypeCall ==
    /\ primary.out = "pending"
    /\ primary' = [primary EXCEPT !.out = getPrimaryErrorType(primary.in)]
    /\ UNCHANGED <<syncInProgress, errors, firstInSession, callerStopped, groups,
                   pc, options, frame, hist, sink, errObjs, storage, env>>

NextPrimary == GetPrimaryErrorTypeCall

SpecPrimary == InitPrimary /\ [][NextPrimary]_vars

\* --------------------------------------------- checkLibraries on its own
\* the libraries arrays checkLibraries is called with: none (everything is
\* synced) or some libraries, in ascending order
RequestedSet == {SortedSeq(S) : S \in SUBSET LibraryIDs}

InitResolve ==
    /\ syncInProgress = FALSE
    /\ errors = <<>>
    /\ firstInSession = TRUE
    /\ callerStopped = FALSE
    /\ groups \in [GroupIDs -> 0..MaxVersion]
    /\ env = [apiKey |-> TRUE, locked |-> FALSE, timer |-> "off"]
    /\ pc = [i \in Invs |-> "off"]
    /\ options = [i \in Invs |-> Options0]
    /\ frame = [i \in Invs |-> Frame0]
    /\ hist = [i \in Invs |-> Hist0]
    /\ sink = <<>>
    /\ errObjs = <<>>
    /\ primary = NoCall
    /\ storage = Storage0

\* the call this.checkLibraries(client, options, keyInfo, requested) of a
\* run, with the key's access; hist[1].resolution keeps the call and what
\* it did
CheckLibrariesCall(access, requested) ==
    /\ hist[1].resolution = NoResolution
    /\ \E in \in ResolveInputsOver(GroupIDs, groups, access, requested) :
         LET r == checkLibraries(groups, access, requested, in)
         IN /\ groups' = r.groups
            /\ hist' = [hist EXCEPT ![1].resolution =
                          [status |-> r.status, gr |-> groups, access |-> access,
                           requested |-> requested, in |-> in, out |-> r]]
    /\ UNCHANGED <<syncInProgress, errors, firstInSession, callerStopped, pc,
                   options, frame, sink, errObjs, primary, storage, env>>

NextResolve == \E access \in AccessSet, requested \in RequestedSet :
                  CheckLibrariesCall(access, requested)

SpecResolve == InitResolve /\ [][NextResolve]_vars

\* ------------------------------------------- sessions over all the groups
\* the libraries a caller of sync() asks for: none, or at most MaxLibs
SessionRequested == {l \in RequestedSet : Len(l) <= MaxLibs}

\* one caller, in the foreground and without an error sink; any of the
\* groups may exist locally
InitGroups ==
    /\ syncInProgress = FALSE
    /\ errors = <<>>
    /\ firstInSession = TRUE
    /\ callerStopped = FALSE
    /\ groups \in [GroupIDs -> 0..MaxVersion]
    /\ env = [apiKey |-> TRUE, locked |-> FALSE, timer |-> "off"]
    /\ pc = [i \in Invs |-> IF i = 1 THEN "idle" ELSE "off"]
    /\ \E l \in SessionRequested :
         options = [i \in Invs |-> IF i = 1 THEN [Options0 EXCEPT !.libraries = l]
                                   ELSE Options0]
    /\ frame = [i \in Invs |-> Frame0]
    /\ hist = [i \in Invs |-> Hist0]
    /\ sink = <<>>
    /\ errObjs = <<>>
    /\ primary = NoCall
    /\ storage = Storage0

NextGroups ==
    \E i \in Invs :
        \/ Call(i)
        \/ PurgeDataObjectsDone(i)
        \/ GetAPIKeyDone(i)
        \/ CheckAccessDone(i)
        \/ CheckEmptyLibraryDone(i)
        \/ CheckUserDone(i)
        \/ CheckLibrariesOver(i, GroupIDs)
        \/ DataEngineDone(i)
        \/ UpdateLastSyncTimeDone(i)
        \/ FileEngineDone(i)
        \/ FullTextEngineDone(i)
        \/ EndDone(i)
        \/ EarlyReturn(i)
        \/ AfterEnd(i)

SpecGroups == InitGroups /\ [][NextGroups]_vars

\* -------------------------------------------------------- the auto-sync timer
\* line 60: assigned nowhere else
manualSyncRequired == FALSE

\* what _getAPIKey() returns to a caller that does not wait for it: the
\* promise Zotero.Promise.method makes (lines 1320-1323), whatever is stored
getAPIKeyPromise(apiKey) == "promise"

\* !x for what the timer callback tests: a promise object, a key (a
\* non-empty string) or no key ("undefined")
Falsy(x) == x = "undefined"

\* callback.notify (lines 775-796) returns without calling sync()
skipsFire(e, inProg) ==
    \/ Falsy(getAPIKeyPromise(e.apiKey))
    \/ e.locked
    \/ inProg
    \/ manualSyncRequired

\* the environment of the timer: changes nothing of a sync() invocation; it
\* is set up before the timer first fires
Environment(e) ==
    /\ \A i \in Invs : pc[i] = "timer"
    /\ env' = e
    /\ UNCHANGED <<syncInProgress, errors, firstInSession, callerStopped, groups,
                   pc, options, frame, hist, sink, errObjs, primary, storage>>

\* lines 759-815: how the timer is set after setSyncTimeout; a timer that
\* was set is cancelled first (lines 759-762), whatever follows
setSyncTimeout(timer, inProg, recurring) ==
    IF recurring THEN "recurring"
    ELSE IF inProg THEN "off"
    ELSE "oneShot"

\* setSyncTimeout(timeout, recurring, options) with the autoSync preference
\* set (lines 750-816): this.enabled, read as an API key being stored; a set
\* timer is cancelled first
SetSyncTimeout(recurring) ==
    /\ env.apiKey
    /\ Environment([env EXCEPT !.timer = setSyncTimeout(@, syncInProgress, recurring)])

\* this.deleteAPIKey (lines 1273-1278): the key is removed, the timer is
\* left as it is
DeleteAPIKey ==
    /\ env.apiKey
    /\ Environment([env EXCEPT !.apiKey = FALSE])

\* Zotero.locked is set or cleared by the application
SetLocked(locked) ==
    /\ env.locked # locked
    /\ Environment([env EXCEPT !.locked = locked])

\* the timer fires and callback.notify runs for invocation slot i; a fire
\* that returns without calling sync() leaves the slot at "skipped".  The
\* slots are used in order, and the runs are those in which the timer is due
\* again while the sync() call of an earlier fire is in its session.
TimerFire(i) ==
    /\ pc[i] = "timer"
    /\ env.timer # "off"
    /\ \A j \in Invs \ {i} : IF j < i THEN InSession(j) ELSE pc[j] = "timer"
    /\ LET e == [env EXCEPT !.timer = IF @ = "oneShot" THEN "off" ELSE @]
       IN IF skipsFire(env, syncInProgress)
          THEN CommitEnv(i, [M(i) EXCEPT !.pc = "skipped"], e)
          ELSE CommitEnv(i, syncEntry(M(i)), e)

\* every invocation slot is for a sync() call of the timer
InitTimer ==
    /\ syncInProgress = FALSE
    /\ errors = <<>>
    /\ firstInSession = TRUE
    /\ callerStopped = FALSE
    /\ groups = [g \in GroupIDs |-> 0]
    /\ env = [apiKey |-> TRUE, locked |-> FALSE, timer |-> "off"]
    /\ pc = [i \in Invs |-> "timer"]
    /\ options = [i \in Invs |-> [Options0 EXCEPT !.background = TRUE]]
    /\ frame = [i \in Invs |-> Frame0]
    /\ hist = [i \in Invs |-> Hist0]
    /\ sink = <<>>
    /\ errObjs = <<>>
    /\ primary = NoCall
    /\ storage = Storage0

NextTimer ==
    \/ \E recurring \in BOOLEAN : SetSyncTimeout(recurring)
    \/ DeleteAPIKey
    \/ \E locked \in BOOLEAN : SetLocked(locked)
    \/ \E i \in Invs :
          \/ TimerFire(i)
          \/ PurgeDataObjectsDone(i)
          \/ GetAPIKeyDone(i)
          \/ CheckAccessDone(i)
          \/ CheckEmptyLibraryDone(i)
          \/ CheckUserDone(i)
          \/ CheckLibrariesDone(i)
          \/ DataEngineDone(i)
          \/ UpdateLastSyncTimeDone(i)
          \/ FileEngineDone(i)
          \/ FullTextEngineDone(i)
          \/ EndDone(i)
          \/ EarlyReturn(i)
          \/ AfterEnd(i)

SpecTimer == InitTimer /\ [][NextTimer]_vars

\* ------------------------------------------ setting the timer at any time
\* setSyncTimeout(timeout, recurring, options) called while a sync() call
\* may be in its session; the timer does not fire in these runs
ArmSyncTimeout(recurring) ==
    /\ env.apiKey
    /\ env' = [env EXCEPT !.timer = setSyncTimeout(@, syncInProgress, recurring)]
    /\ UNCHANGED <<syncInProgress, errors, firstInSession, callerStopped, groups,
                   pc, options, frame, hist, sink, errObjs, primary, storage>>

NextArm ==
    \/ Next
    \/ \E recurring \in BOOLEAN : ArmSyncTimeout(recurring)

SpecArm == Init /\ [][NextArm]_vars

\* ------------------------------------------- the storage controller cache
\* the controllers constructed in one behaviour
MaxControllers == 3

\* a call this.getStorageController(mode, opts)
GetStorageController(mode, opts) ==
    /\ storage.controllers[mode] = NoController => storage.made < MaxControllers
    /\ LET r == getStorageController(storage, mode, opts)
       IN storage' = [r.st EXCEPT !.returned[mode] = @ \cup {r.ret},
                                  !.call = [op |-> "get", mode |-> mode, opts |-> opts,
                                            ret |-> r.ret, constructed |-> r.constructed]]
    /\ UNCHANGED <<syncInProgress, errors, firstInSession, callerStopped, groups,
                   pc, options, frame, hist, sink, errObjs, primary, env>>

\* a call this.resetStorageController(mode)
ResetStorageController(mode) ==
    /\ storage' = [resetStorageController(storage, mode)
                     EXCEPT !.returned[mode] = {},
                            !.call = [op |-> "reset", mode |-> mode]]
    /\ UNCHANGED <<syncInProgress, errors, firstInSession, callerStopped, groups,
                   pc, options, frame, hist, sink, errObjs, primary, env>>

InitStorage ==
    /\ Quiet
    /\ errors = <<>>
    /\ errObjs = <<>>
    /\ primary = NoCall
    /\ storage = Storage0

NextStorage ==
    \/ \E mode \in Modes, opts \in OptionsSet : GetStorageController(mode, opts)
    \/ \E mode \in Modes : ResetStorageController(mode)

SpecStorage == InitStorage /\ [][NextStorage]_vars

\* ------------------------------------------------------------- properties
PhasePCs == {"dataEngine", "updateLastSyncTime", "fileEngine", "fullTextEngine"}

\* a step of invocation i that completes one of its this.end(options) calls
EndCompletes(i) ==
    /\ pc[i] \in {"endEarly", "end"}
    /\ pc'[i] \in {"earlyReturn", "afterEnd"}

\* C1: mutual exclusion.  No this.end(options) of one invocation turns
\* _syncInProgress off while another invocation is between marking the
\* session in progress and the end of its teardown (were it otherwise, the
\* guard would let a further invocation in beside the running one).
C1_NoForeignReset ==
    [][\A i \in Invs :
        (EndCompletes(i) /\ syncInProgress /\ ~syncInProgress')
            => \A j \in Invs \ {i} : ~InSession(j)]_vars

\* a sync() call of invocation i that is rejected by the in-progress guard
Rejected(i) ==
    /\ pc[i] \in {"idle", "waiting"}
    /\ syncInProgress
    /\ pc'[i] = "done"

\* C2: reentrancy.  A sync() call rejected by the in-progress guard leaves
\* the in-progress flag, the queued errors, and the attempt counter and the
\* working set of the running invocation as they were.
C2_RejectedCallFrame ==
    [][\A i \in Invs :
        Rejected(i) => /\ syncInProgress' = syncInProgress
                       /\ errors' = errors
                       /\ \A j \in Invs \ {i} :
                            /\ frame'[j].attempt = frame[j].attempt
                            /\ frame'[j].librariesToSync = frame[j].librariesToSync]_vars

\* C3: an invocation that passed the guard, was not restarted and has run
\* through its finally block (the finish notification was sent) has called
\* this.end(options) exactly once.
C3_EndExactlyOnce ==
    \A i \in Invs :
        (pc[i] = "done" /\ hist[i].marked /\ hist[i].restarts = 0
            /\ hist[i].finish = 1)
        => hist[i].endCalls = 1

\* C4: once the only invocation that set _syncInProgress has ended, by
\* returning or by an exception, the flag is off again.
C4_FlagResetWhenDone ==
    \A i \in Invs :
        (pc[i] = "done" /\ hist[i].marked) => ~syncInProgress

\* the queue the errors of invocation i go to
Reported(i) == IF options[i].onError THEN sink ELSE errors

\* the attempt counter is within its budget; phases run at attempts 1 to 3
\* only; at attempt 4 the session is in its teardown, the last error
\* reported being the too-many-attempts error without a library ID
AttemptBudget(i) ==
    LET a == frame[i].attempt
        q == Reported(i)
    IN /\ a \in 0..(MaxAttempts + 1)
       /\ pc[i] \in PhasePCs => (a \in 1..MaxAttempts /\ hist[i].dataRuns \in 1..MaxAttempts)
       /\ a = MaxAttempts + 1 => pc[i] \in {"end", "afterEnd"}
       /\ (a = MaxAttempts + 1 /\ pc[i] = "end")
            => /\ q # <<>>
               /\ q[Len(q)].kind = "tooManyAttempts"
               /\ q[Len(q)].libraryID = NoLib

\* the attempt counter starts at 1 when the libraries are resolved, and it
\* changes only by one, at the return of a File or FullText phase with a
\* non-empty resync set, which the next Data phase runs over unless the
\* budget is gone (it is 0 again once sync() is left or entered anew)
AttemptStep(i) ==
    LET a == frame[i].attempt
        b == frame'[i].attempt
    IN /\ (pc[i] = "checkLibraries" /\ pc'[i] \in PhasePCs) => b = 1
       /\ b # a =>
            \/ b = 0
            \/ a = 0 /\ b = 1 /\ pc[i] = "checkLibraries"
            \/ /\ b = a + 1
               /\ pc[i] \in {"fileEngine", "fullTextEngine"}
               /\ IF b <= MaxAttempts
                  THEN /\ pc'[i] = "dataEngine"
                       /\ frame'[i].libraries # <<>>
                       /\ frame'[i].libraries = hist'[i].resync
                  ELSE pc'[i] = "end"

\* C5: attempt budget.  The attempt counter starts at 1, grows by exactly
\* one and only when the File or the FullText phase returned a non-empty
\* resync set, never exceeds 4; no phase runs at an attempt above 3 (at most
\* 3 Data passes), and at attempt 4 the too-many-attempts error, without a
\* library ID, has been reported and the session is in its teardown.
C5_AttemptBudget ==
    /\ [](\A i \in Invs : AttemptBudget(i))
    /\ [][\A i \in Invs : AttemptStep(i)]_vars

\* the fourth attempt was refused: the error is queued, teardown is running
C5_Witness ==
    \E i \in Invs :
        /\ frame[i].attempt = MaxAttempts + 1
        /\ pc[i] = "end"
        /\ ~options[i].onError
        /\ errors # <<>>
        /\ errors[Len(errors)].kind = "tooManyAttempts"

\* C6: phase ordering.  A storage engine runs only after the Data pass of
\* the attempt has returned; a full-text engine runs only after the File
\* phase of the attempt has returned an empty resync set; and a Data pass
\* that follows a File phase with a non-empty resync set runs over exactly
\* that set, with no FullText phase in between.
C6_PhaseOrder ==
    \A i \in Invs :
        LET f == frame[i]
            ev == hist[i].ev
        IN /\ pc[i] = "fileEngine"
                => (ev.dataOut # Null /\ ev.fileIn # Null
                     /\ ev.fileOut = Null /\ ev.ftIn = Null)
           /\ pc[i] = "fullTextEngine"
                => (ev.fileOut = <<>> /\ ev.ftIn # Null)
           /\ (pc[i] \in {"dataEngine", "updateLastSyncTime"} /\ f.attempt > 1)
                => /\ ev.fileOut # Null
                   /\ ev.fileOut # <<>> => (ev.ftIn = Null /\ f.libraries = ev.fileOut)

\* the second Data pass runs over the one library, of two, that the File
\* phase returned
C6_Witness ==
    \E i \in Invs :
        /\ pc[i] = "dataEngine"
        /\ frame[i].attempt = 2
        /\ hist[i].resolved # Null
        /\ Len(hist[i].resolved) = 2
        /\ Len(hist[i].ev.fileOut) = 1
        /\ hist[i].ev.fileOut # Null
        /\ frame[i].libraries = hist[i].ev.fileOut

\* C7: set containment.  The File phase runs over a subset of what the Data
\* pass of the attempt returned; the FullText phase runs over the current
\* successfulLibraries, which are the resolved libraries less those that a
\* Data pass was given and did not return, whatever the File phase did.
C7_SetContainment ==
    \A i \in Invs :
        LET f == frame[i]
            ev == hist[i].ev
        IN /\ pc[i] = "fileEngine"
                => (f.libraries = ev.fileIn /\ SeqSet(ev.fileIn) \subseteq SeqSet(ev.dataOut))
           /\ pc[i] = "fullTextEngine"
                => /\ f.libraries = ev.ftIn
                   /\ ev.ftIn = f.successfulLibraries
                   /\ SeqSet(f.successfulLibraries)
                        = SeqSet(hist[i].resolved) \ hist[i].dropped

\* the File phase of a second attempt ran over one library and its storage
\* engine failed; the FullText phase starts over both libraries of the
\* session, that one included
C7_Witness ==
    \E i \in Invs :
        LET r == hist[i].report
        IN /\ pc[i] = "fullTextEngine"
           /\ frame[i].attempt = 2
           /\ r.lib # NoLib
           /\ r.failed
           /\ r.input = <<r.lib>>
           /\ Len(frame[i].libraries) = 2
           /\ r.lib \in SeqSet(frame[i].libraries)

\* C8 as stated: when the storage engine of the only library L of the
\* session reports fileSyncRequired on attempt 1, the attempt counter
\* becomes 2 and the Data phase runs again over L alone.
C8_FileSyncRequiredRestarts ==
    \A i \in Invs :
        LET r == hist[i].report
        IN (r.lib # NoLib /\ ~r.failed /\ r.attempt = 1
                /\ r.results.fileSyncRequired /\ hist[i].resolved = <<r.lib>>)
            => /\ frame[i].attempt = 2
               /\ pc[i] = "dataEngine"
               /\ frame[i].libraries = <<r.lib>>

\* C8: when the storage engine of the only library L of the session reports
\* syncRequired on attempt 1, the attempt counter becomes 2 and the Data
\* phase runs again over L alone (in general, over the libraries that
\* reported syncRequired); a report of fileSyncRequired without syncRequired
\* runs the storage engine of L again within the same File phase, while runs
\* are left, and leaves the attempt counter as it is.
C8_SyncRequiredRestarts ==
    \A i \in Invs :
        LET r == hist[i].report
            f == frame[i]
        IN (r.lib # NoLib /\ ~r.failed) =>
            /\ (r.attempt = 1 /\ r.results.syncRequired /\ hist[i].resolved = <<r.lib>>)
                => (f.attempt = 2 /\ pc[i] = "dataEngine" /\ f.libraries = <<r.lib>>)
            /\ (r.results.syncRequired /\ pc[i] = "dataEngine")
                => (f.attempt = r.attempt + 1 /\ f.libraries = Append(r.out, r.lib))
            /\ (r.results.fileSyncRequired /\ ~r.results.syncRequired /\ r.tries > 0)
                => /\ pc[i] = "fileEngine"
                   /\ f.attempt = r.attempt
                   /\ f.libraries[f.idx] = r.lib
                   /\ f.tries = r.tries - 1

\* syncRequired for the only library on attempt 1: attempt 2, Data over it
C8_Witness ==
    \E i \in Invs :
        LET r == hist[i].report
        IN /\ r.lib # NoLib
           /\ ~r.failed
           /\ r.attempt = 1
           /\ r.results.syncRequired
           /\ ~r.results.fileSyncRequired
           /\ hist[i].resolved = <<r.lib>>
           /\ frame[i].attempt = 2
           /\ pc[i] = "dataEngine"
           /\ frame[i].libraries = <<r.lib>>

\* the entries of the error queue that are error object o
Entries(o) == {k \in 1..Len(errors) : errors[k].id = o}

\* C9: addError dedup.  However often addError has been called with an
\* error object, the queue holds exactly one entry for it (none before the
\* first call), and a call with an object already marked added leaves the
\* queue as it is.
C9_AddErrorDedup ==
    /\ [](\A o \in ErrObjs :
            /\ errObjs.calls[o] = 0 => (Entries(o) = {} /\ ~errObjs.obj[o].added)
            /\ errObjs.calls[o] > 0 => (Cardinality(Entries(o)) = 1 /\ errObjs.obj[o].added))
    /\ [][\A o \in ErrObjs :
            (errObjs.obj[o].added /\ errObjs'.calls[o] # errObjs.calls[o])
                => errors' = errors]_vars

\* addError was called twice with each of two objects: two entries
C9_Witness ==
    /\ errObjs # <<>>
    /\ \A o \in ErrObjs : errObjs.calls[o] = 2 /\ Cardinality(Entries(o)) = 1
    /\ Len(errors) = 2

\* the claim's order of the types
Severity == <<"info", "warning", "error", "upgrade">>
SeverityOf(t) == CHOOSE n \in 1..Len(Severity) : Severity[n] = t

\* C10: getPrimaryErrorType returns 'error' if some error of the list is
\* fatal; otherwise the greatest type of the list under
\* info < warning < error < upgrade, errors of type animate or without a
\* type left aside; and false if no error is left.
C10_PrimaryErrorType ==
    primary.out # "pending" =>
        LET l == primary.in
            typed == {l[k].errorType : k \in 1..Len(l)} \ {"animate", "none"}
        IN IF \E k \in 1..Len(l) : l[k].fatal THEN primary.out = "error"
           ELSE IF typed = {} THEN primary.out = "false"
           ELSE /\ primary.out \in typed
                /\ \A t \in typed : SeverityOf(t) <= SeverityOf(primary.out)

\* a fatal warning after an upgrade notice gives 'error'
C10_Witness ==
    /\ primary.in = <<[errorType |-> "upgrade", fatal |-> FALSE],
                      [errorType |-> "warning", fatal |-> TRUE]>>
    /\ primary.out = "error"

\* the checkLibraries call just made by invocation i, if any
Resolution(i) == hist[i].resolution

\* the call returned a set of libraries to sync everything (no libraries
\* were requested)
ReturnedSyncAll(res) == res.status = "ok" /\ res.requested = <<>>

\* the personal and publications libraries in the returned set are the
\* two, minus the skip-list, with personal-library access and none without
SeededAsGranted(res) ==
    SeqSet(res.out.libraries) \cap {userLibraryID, publicationsLibraryID} =
        IF res.access.userLibrary
        THEN {userLibraryID, publicationsLibraryID} \ res.in.skippedLibraries
        ELSE {}

\* C11 as stated: whenever checkLibraries returns in sync-all mode, the
\* returned set holds the personal and the publications library except the
\* skip-listed ones if the key has personal-library access, and neither if
\* it has not.
C11_SeedingAlways ==
    \A i \in Invs : ReturnedSyncAll(Resolution(i)) => SeededAsGranted(Resolution(i))

\* C11, amended: the same for every sync-all call that returns without a
\* 'cancel' answer to a prompt about a remotely missing group.
C11_Seeding ==
    \A i \in Invs :
        ReturnedSyncAll(Resolution(i)) /\ ~Resolution(i).out.cancelled
            => SeededAsGranted(Resolution(i))

\* a sync-all call with personal-library access and the publications
\* library skip-listed returned the personal library and a group library
C11_Witness ==
    \E i \in Invs :
        /\ ReturnedSyncAll(Resolution(i))
        /\ ~Resolution(i).out.cancelled
        /\ Resolution(i).access.userLibrary
        /\ Resolution(i).in.skippedLibraries = {publicationsLibraryID}
        /\ userLibraryID \in SeqSet(Resolution(i).out.libraries)
        /\ \E g \in GroupIDs : GroupLibraryID(g) \in SeqSet(Resolution(i).out.libraries)

\* the key does not allow what the call asks for: its group access is
\* enumerated, or a personal or publications library is requested and it
\* has no personal-library access
Denied(res) ==
    \/ res.access.groups = "some"
    \/ /\ ~res.access.userLibrary
       /\ \E k \in 1..Len(res.requested) :
             libraryType(res.requested[k]) \in {"user", "publications"}

\* the call threw and did nothing else
Aborted(res) ==
    /\ res.status = "throw"
    /\ ~res.out.fetchedVersions
    /\ res.out.prompted = <<>>
    /\ res.out.erased = <<>>
    /\ res.out.fetched = <<>>
    /\ res.out.saved = <<>>
    /\ res.out.groups = res.gr

\* C12: access fail-closed.  A checkLibraries call made with enumerated
\* group access, or asking for the personal or the publications library
\* without personal-library access, throws without fetching the remote group
\* versions, prompting, erasing or saving a group; the local groups are as
\* before and the invocation runs no phase from then on.
C12_AccessFailClosed ==
    /\ [](\A i \in Invs :
            Resolution(i).status # "none" /\ Denied(Resolution(i))
                => Aborted(Resolution(i)) /\ groups = Resolution(i).gr)
    /\ \A i \in Invs :
            [](Resolution(i).status # "none" /\ Denied(Resolution(i))
                  => [](pc[i] \notin PhasePCs))

\* a sync of the personal library and of a local group, with a key that has
\* access to all groups and none to the personal library, has thrown and
\* the invocation is in its teardown
C12_Witness ==
    \E i \in Invs :
        /\ Resolution(i).status = "throw"
        /\ pc[i] = "end"
        /\ ~Resolution(i).access.userLibrary
        /\ Resolution(i).access.groups = "all"
        /\ \E g \in GroupIDs :
              /\ groups[g] > 0
              /\ Resolution(i).requested = <<userLibraryID, GroupLibraryID(g)>>

\* the call fetched the remote group versions to sync everything
ReconciledSyncAll(res) ==
    /\ res.status # "none"
    /\ res.requested = <<>>
    /\ res.access.groups = "all"
    /\ res.out.fetchedVersions

\* the remote group g is not downloaded and not in the returned set
LeftOut(res, g) ==
    /\ g \notin SeqSet(res.out.groupsToDownload)
    /\ g \notin SeqSet(res.out.fetched)
    /\ GroupLibraryID(g) \notin SeqSet(res.out.libraries)

\* the local group g is older than the remote one, or there is none
AbsentOrStale(res, g) == res.gr[g] < res.in.remote[g]

\* what the call did with the remote groups; added(g) says when the library
\* of an up-to-date group has to be in the returned set
Reconciled(res, added(_)) ==
    \A g \in GroupIDs :
        res.in.remote[g] > 0 =>
            IF g \in res.in.skippedGroups THEN LeftOut(res, g)
            ELSE IF AbsentOrStale(res, g) THEN g \in SeqSet(res.out.groupsToDownload)
            ELSE /\ g \notin SeqSet(res.out.fetched)
                 /\ added(g) => GroupLibraryID(g) \in SeqSet(res.out.libraries)

\* C13 as stated: in sync-all mode with all-group access, a skip-listed
\* remote group is neither downloaded nor in the resolved set, every other
\* remote group that is absent or stale locally is in groupsToDownload, and
\* every other remote group has its library in the set checkLibraries
\* returns, with no metadata fetch.
C13_ReconciliationAlways ==
    \A i \in Invs :
        ReconciledSyncAll(Resolution(i)) =>
            Reconciled(Resolution(i), LAMBDA g : Resolution(i).status = "ok")

\* C13, amended: the library of an up-to-date remote group is in the
\* returned set when the call returns without a 'cancel' answer to a prompt
\* about a remotely missing group; the rest as stated.
C13_Reconciliation ==
    \A i \in Invs :
        ReconciledSyncAll(Resolution(i)) =>
            Reconciled(Resolution(i),
                       LAMBDA g : /\ Resolution(i).status = "ok"
                                  /\ ~Resolution(i).out.cancelled)

\* a call returned with a stale group whose metadata was fetched and an
\* up-to-date group whose library is in the returned set
C13_Witness ==
    \E i \in Invs :
        /\ ReconciledSyncAll(Resolution(i))
        /\ Resolution(i).status = "ok"
        /\ ~Resolution(i).out.cancelled
        /\ \E g, u \in GroupIDs :
              /\ g # u
              /\ g \notin Resolution(i).in.skippedGroups
              /\ Resolution(i).gr[g] > 0
              /\ Resolution(i).gr[g] < Resolution(i).in.remote[g]
              /\ g \in SeqSet(Resolution(i).out.fetched)
              /\ u \notin Resolution(i).in.skippedGroups
              /\ Resolution(i).gr[u] > 0
              /\ Resolution(i).gr[u] = Resolution(i).in.remote[u]
              /\ u \notin SeqSet(Resolution(i).out.fetched)
              /\ GroupLibraryID(u) \in SeqSet(Resolution(i).out.libraries)

\* the answer to the prompt for one of the remotely missing groups of the
\* call is 'cancel'
CancelDecided(res) ==
    /\ res.status # "none"
    /\ \E g \in SeqSet(res.out.remotelyMissingGroups) : res.in.decide[g] = "cancel"

\* the call returned the empty set and left the groups alone
ReturnedNothing(res) ==
    /\ res.status = "ok"
    /\ res.out.libraries = <<>>
    /\ res.out.erased = <<>>
    /\ res.out.fetched = <<>>
    /\ res.out.saved = <<>>
    /\ res.out.groups = res.gr

\* C14: when the answer for a remotely missing group is 'cancel',
\* checkLibraries returns the empty set: no local group is erased, not even
\* one whose prompt was answered 'remove' before, no group metadata is
\* fetched or saved, the local groups are as before, and the invocation
\* runs no Data, File or FullText phase from then on.
C14_CancelReturnsNothing ==
    /\ [](\A i \in Invs :
            CancelDecided(Resolution(i))
                => ReturnedNothing(Resolution(i)) /\ groups = Resolution(i).gr)
    /\ \A i \in Invs :
            [](CancelDecided(Resolution(i)) => [](pc[i] \notin PhasePCs))

\* two local groups are remotely missing, the first prompt was answered
\* 'remove' and the second 'cancel'; both groups are still there and the
\* invocation is in its teardown
C14_Witness ==
    \E i \in Invs :
        /\ CancelDecided(Resolution(i))
        /\ Resolution(i).out.prompted = <<1, 2>>
        /\ Resolution(i).in.decide[1] = "remove"
        /\ Resolution(i).in.decide[2] = "cancel"
        /\ groups[1] > 0
        /\ groups[2] > 0
        /\ pc[i] = "end"

\* the call got to its prompts and none was answered 'cancel'
PromptedNoCancel(res) ==
    /\ res.status # "none"
    /\ res.out.remotelyMissingGroups # <<>>
    /\ ~CancelDecided(res)

OfflineTeardown(i) ==
    /\ pc[i] = "end"
    /\ hist[i].caught = "offline"
    /\ ~options[i].onError

\* C16: when a client-is-offline exception ends a session without an error
\* sink, the queue that end() is called with holds one entry, the offline
\* notice, and no error queued earlier in the session.
C16_OfflineReplacesQueue ==
    \A i \in Invs :
        OfflineTeardown(i) =>
            /\ Len(errors) = 1
            /\ errors[1].kind = "offlineNotice"

\* the offline exception was the second exception of the session: the
\* failure of an engine had been queued before it
C16_Witness ==
    \E i \in Invs :
        /\ OfflineTeardown(i)
        /\ hist[i].raised = 2
        /\ Len(errors) = 1
        /\ errors[1].kind = "offlineNotice"

\* a step in which invocation i raises an exception that is not a user
\* cancellation: an exception of sync() itself or the failure of an engine
Raises(i) == hist'[i].raised = hist[i].raised + 1

\* the step hands the exception to the sink and leaves the queue empty, or,
\* without a sink, puts it (for an offline exception, its notice) at the
\* end of the queue
Routes(i) ==
    IF options[i].onError
    THEN /\ Len(sink') = Len(sink) + 1
         /\ errors' = <<>>
    ELSE /\ sink' = sink
         /\ errors' # <<>>
         /\ errors'[Len(errors')].id = frame'[i].thrown

\* C17 as stated: every exception of a session other than a user
\* cancellation, and every engine failure, goes to the caller's error sink
\* when there is one, the queue staying empty through teardown, and to the
\* queue when there is none.
C17_ErrorRouting ==
    /\ [](\A i \in Invs : options[i].onError => errors = <<>>)
    /\ [][\A i \in Invs : Raises(i) => Routes(i)]_vars

\* the step of invocation i in which yield _getAPIKey() ends while no API
\* key is stored
NoKeyStep(i) == pc[i] = "getAPIKey" /\ ~env.apiKey /\ pc'[i] # pc[i]

\* C18: credentials fail-fast.  With no API key stored, sync() goes from the
\* key lookup straight to its teardown, no API client call, prompt, library
\* resolution or phase in between: the API-key-not-set error (or the
\* exception of the lookup itself, if that threw) is caught and is queued,
\* or passed to the sink if there is one, and end() is called.
C18_NoKeyFailsFast ==
    [][\A i \in Invs :
          NoKeyStep(i) =>
              /\ pc'[i] = "end"
              /\ hist'[i].caught \in {"apiKeyNotSet", "generic"}
              /\ hist'[i].caught = "apiKeyNotSet" =>
                    IF options[i].onError
                    THEN sink' = <<NewError(1, "apiKeyNotSet", FALSE)>>
                    ELSE /\ Len(errors') = 1
                         /\ errors'[1].kind = "apiKeyNotSet"
              /\ Raises(i) /\ Routes(i)
              /\ hist'[i].endCalls = hist[i].endCalls + 1
              /\ hist'[i].resolved = Null
              /\ hist'[i].dataRuns = 0]_vars

\* no key is stored and the invocation is in its teardown with the
\* API-key-not-set error, the only entry of the queue
C18_Witness ==
    \E i \in Invs :
        /\ ~env.apiKey
        /\ pc[i] = "end"
        /\ hist[i].caught = "apiKeyNotSet"
        /\ hist[i].endCalls = 1
        /\ ~options[i].onError
        /\ Len(errors) = 1
        /\ errors[1].kind = "apiKeyNotSet"

\* the step in which the timer fires for slot i
Fires(i) == pc[i] = "timer" /\ pc'[i] # "timer"

\* C19 as stated: a fire of the auto-sync timer calls sync(), starting a
\* session, only if an API key is stored, Zotero is not locked, no sync is
\* in progress and no manual sync is required; otherwise it starts none.
C19_TimerFireGuards ==
    [][\A i \in Invs :
          Fires(i) =>
              IF env.apiKey /\ ~env.locked /\ ~syncInProgress /\ ~manualSyncRequired
              THEN InSession(i)'
              ELSE ~InSession(i)' /\ UNCHANGED syncInProgress]_vars

\* the end() call of the finally block of invocation i has returned with the
\* restart flag set on its options
RestartDue(i) == pc[i] = "afterEnd" /\ options[i].restartSync

\* C20: restart.  When end() returns with options.restartSync set, it has
\* made no end-of-session icon update; the finally block then clears the
\* flag, triggers no 'finish' and calls sync() once with the same options,
\* _syncInProgress being reset by then, so that a new session starts.  The
\* 'finish' notification comes once, from the finally block of a session
\* that is not restarted.
C20_Restart ==
    /\ [](\A i \in Invs : (RestartDue(i) => ~hist[i].endIcons) /\ hist[i].finish <= 1)
    /\ [][\A i \in Invs :
            RestartDue(i) /\ pc'[i] # pc[i] =>
                /\ ~syncInProgress
                /\ hist'[i].finish = hist[i].finish
                /\ hist'[i].restarts = hist[i].restarts + 1
                /\ options'[i] = [options[i] EXCEPT !.restartSync = FALSE]
                /\ pc'[i] = "purgeDataObjects"
                /\ syncInProgress']_vars
    /\ [][\A i \in Invs :
            hist'[i].finish # hist[i].finish =>
                /\ pc[i] = "afterEnd"
                /\ ~options[i].restartSync
                /\ pc'[i] = "done"
                /\ hist'[i].finish = hist[i].finish + 1]_vars

\* a session was restarted once and the restarted session has ended: one
\* 'finish' was triggered, after three end() calls at most
C20_Witness ==
    \E i \in Invs :
        /\ pc[i] = "done"
        /\ hist[i].restarts = 1
        /\ hist[i].finish = 1
        /\ ~options[i].restartSync
        /\ ~syncInProgress

\* the step in which the engine of the given phase that invocation i waits
\* for ends with outcome res
EngineEnds(i, phase, res) ==
    /\ hist'[i].engine.res = res
    /\ hist'[i].engine.phase = phase

\* nothing is reported in the step: the queue, the sink and the caller
\* (the gate) are as before
Unreported ==
    /\ errors' = errors
    /\ sink' = sink
    /\ callerStopped' = callerStopped

\* the loop of the Data phase goes on after the library it is at, which is
\* not added to the libraries the phase returns
DataLoopSkips(i) ==
    /\ frame[i].libraries[frame[i].idx] \notin SeqSet(frame[i].out)
    /\ IF moreLibraries(frame[i])
       THEN /\ pc'[i] = "dataEngine"
            /\ frame'[i].idx = frame[i].idx + 1
            /\ frame'[i].libraries = frame[i].libraries
            /\ frame'[i].out = frame[i].out
       ELSE IF frame[i].out # <<>>
       THEN /\ pc'[i] = "updateLastSyncTime"
            /\ frame'[i].out = frame[i].out
       ELSE \/ frame[i].libraries[frame[i].idx] \in hist'[i].dropped
            \/ pc'[i] = "end" /\ hist'[i].caught = "none"

\* C21: cancellation in the Data phase.  A cancellation that advances to the
\* next library skips the library: it is not among the libraries returned,
\* nothing is queued or sent to the sink, the caller is not stopped and the
\* loop goes on with the remaining libraries.  A cancellation that does not
\* ends the pass and the session: sync() goes to its teardown, end() is
\* called, no engine is started and nothing is queued or sent to the sink.
C21_DataCancellation ==
    [][\A i \in Invs :
          /\ EngineEnds(i, "data", "cancelNext") => Unreported /\ DataLoopSkips(i)
          /\ EngineEnds(i, "data", "cancel") =>
                /\ Unreported
                /\ pc'[i] = "end"
                /\ hist'[i].caught = "cancel"
                /\ hist'[i].endCalls = hist[i].endCalls + 1]_vars

\* the engine of the first of two libraries was cancelled with the advance
\* flag: the loop is at the second library, nothing returned or queued so far
C21_Witness ==
    \E i \in Invs :
        /\ hist[i].engine.res = "cancelNext"
        /\ pc[i] = "dataEngine"
        /\ frame[i].idx = 2
        /\ hist[i].engine.lib = frame[i].libraries[1]
        /\ frame[i].out = <<>>
        /\ errors = <<>>
        /\ ~callerStopped

\* the storage engine of the library the File phase of invocation i is at
\* asks for another file sync, and it was the last run of the library's budget
Exhausts(i) ==
    /\ EngineEnds(i, "file", "ok")
    /\ storageResultAction(hist'[i].report.results) = "retry"
    /\ frame[i].tries = 0

\* the step reports an error of the given kind and fatality: it is passed to
\* the sink if the caller gave one, and put on the queue if not
ReportedAs(i, kind, fatal) ==
    LET old == IF options[i].onError THEN sink ELSE errors
        new == IF options[i].onError THEN sink' ELSE errors'
    IN /\ Len(new) > Len(old)
       /\ SubSeq(new, 1, Len(old)) = old
       /\ new[Len(old) + 1].kind = kind
       /\ new[Len(old) + 1].fatal = fatal
       /\ options[i].onError => errors' = errors
       /\ ~options[i].onError => sink' = sink

\* a storage engine is running only while its library has budget left, and
\* a run that is repeated in place takes one unit of it
FileBudget ==
    /\ [](\A i \in Invs : pc[i] = "fileEngine" => frame[i].tries \in 0..(FileTries - 1))
    /\ [][\A i \in Invs :
            pc[i] = "fileEngine" /\ pc'[i] = "fileEngine" /\ frame'[i].idx = frame[i].idx
                => /\ storageResultAction(hist'[i].report.results) = "retry"
                   /\ frame[i].tries > 0
                   /\ frame'[i].tries = frame[i].tries - 1]_vars

\* C22 as stated: the storage engine runs at most three times for a library
\* in one pass of the File phase, and when every run asks for another file
\* sync the exhaustion is fatal: an error is reported for the library, the
\* caller is stopped and the remaining libraries are not processed.
C22_FileBudgetFatal ==
    /\ FileBudget
    /\ [][\A i \in Invs :
            Exhausts(i) => /\ ReportedAs(i, "tooManyFileSyncs", TRUE)
                           /\ callerStopped'
                           /\ pc'[i] # "fileEngine"]_vars

\* C22, amended: the storage engine runs at most three times for a library
\* in one pass of the File phase; when every run asks for another file sync,
\* an error that is not fatal is reported, the caller is not stopped, the
\* library is not recorded for resync and the loop goes on with the next
\* library, if there is one, with a full budget.
C22_FileBudget ==
    /\ FileBudget
    /\ [][\A i \in Invs :
            Exhausts(i) =>
                /\ ReportedAs(i, "tooManyFileSyncs", FALSE)
                /\ callerStopped' = callerStopped
                /\ moreLibraries(frame[i]) =>
                      /\ pc'[i] = "fileEngine"
                      /\ frame'[i].idx = frame[i].idx + 1
                      /\ frame'[i].tries = FileTries - 1
                      /\ frame'[i].out = frame[i].out]_vars

\* the third run for the first of two libraries asked for another file sync,
\* and the engine of the second library is running
C22_Witness ==
    \E i \in Invs :
        /\ hist[i].engine.res = "ok"
        /\ hist[i].engine.phase = "file"
        /\ hist[i].report.tries = 0
        /\ storageResultAction(hist[i].report.results) = "retry"
        /\ ~hist[i].report.failed
        /\ pc[i] = "fileEngine"
        /\ frame[i].idx = 2
        /\ hist[i].report.lib = frame[i].libraries[1]
        /\ ~callerStopped

\* the resync list of the File phase after the run the report r is about:
\* the library is appended when the engine returned with syncRequired
ResyncAfter(r) ==
    IF ~r.failed /\ r.results.syncRequired THEN Append(r.out, r.lib) ELSE r.out

\* the resync list holds libraries the loop has passed only, in the order
\* of the input and each at most once
ResyncListed(f) ==
    /\ \A k \in 1..Len(f.out) : \E j \in 1..(f.idx - 1) : f.libraries[j] = f.out[k]
    /\ \A j, k \in 1..Len(f.out) : f.out[j] = f.out[k] => j = k

\* C23: result of the File phase.  Every run of a storage engine leaves the
\* resync list as it was, except a run that returns with syncRequired, which
\* appends its library and ends the runs of that library (with
\* fileSyncRequired set as well, too: the file sync is not repeated in
\* place); a library whose engine failed or returned neither flag is not
\* added.  The list never holds a library twice, and it is what the phase
\* returns: when not empty the next attempt's Data phase runs over it, when
\* empty the FullText phase or the teardown follows.
C23_FileResult ==
    /\ [](\A i \in Invs : pc[i] = "fileEngine" => ResyncListed(frame[i]))
    /\ [][\A i \in Invs :
            (pc[i] = "fileEngine" /\ hist'[i].engine.res # "none") =>
                LET r == hist'[i].report
                    res == ResyncAfter(r)
                IN /\ r.lib = frame[i].libraries[frame[i].idx]
                   /\ r.out = frame[i].out
                   /\ CASE pc'[i] = "fileEngine" ->
                            /\ frame'[i].out = res
                            /\ frame'[i].libraries = frame[i].libraries
                            /\ (r.failed \/ r.results.syncRequired
                                    \/ ~r.results.fileSyncRequired)
                                  => frame'[i].idx = frame[i].idx + 1
                        [] pc'[i] = "dataEngine" ->
                            /\ res # <<>>
                            /\ frame'[i].libraries = res
                            /\ frame'[i].attempt = frame[i].attempt + 1
                        [] pc'[i] = "fullTextEngine" -> res = <<>>
                        [] OTHER ->
                            /\ pc'[i] = "end"
                            /\ res # <<>> => hist'[i].caught = "tooManyAttempts"]_vars

\* the engine of the first of two libraries returned with both flags set:
\* the library is on the resync list and the engine of the second is running
C23_Witness ==
    \E i \in Invs :
        /\ hist[i].engine.res = "ok"
        /\ hist[i].engine.phase = "file"
        /\ hist[i].report.results = [syncRequired |-> TRUE, fileSyncRequired |-> TRUE]
        /\ pc[i] = "fileEngine"
        /\ frame[i].idx = 2
        /\ frame[i].tries = FileTries - 1
        /\ frame[i].out = <<hist[i].report.lib>>

\* sync() has got the list res from _doFullTextSync in the step: a list that
\* is not empty starts the next attempt over it (or is one attempt too
\* many), the empty list ends the session
FullTextReturns(i, res) ==
    IF res = <<>> THEN pc'[i] = "end" /\ hist'[i].caught = "none"
    ELSE /\ frame'[i].attempt = frame[i].attempt + 1
         /\ \/ pc'[i] = "dataEngine" /\ frame'[i].libraries = res
            \/ pc'[i] = "end" /\ hist'[i].caught = "tooManyAttempts"

\* C24: result of the FullText phase.  With full-text sync disabled the
\* phase starts no engine and returns the empty list.  With it enabled, an
\* engine that rejects with a 412 response adds its library to the list the
\* phase returns, and no other outcome adds one; the rejection queues no
\* error, sends none to the sink and does not stop the caller, and the loop
\* goes on with the next library.  (The only error a step with a 412
\* rejection can report is the session's too-many-attempts error, when the
\* returned list asks for a fourth attempt.)
C24_FullTextResult ==
    [][\A i \in Invs :
          /\ hist'[i].fullText = "off" =>
                /\ pc'[i] = "end"
                /\ hist'[i].caught = "none"
                /\ frame'[i].attempt = frame[i].attempt
          /\ (pc[i] = "fullTextEngine" /\ hist'[i].engine.res # "none") =>
                LET l == frame[i].libraries[frame[i].idx]
                    rejected == hist'[i].engine.res = "412"
                    res == IF rejected THEN Append(frame[i].out, l) ELSE frame[i].out
                IN /\ l \notin SeqSet(frame[i].out)
                   /\ rejected =>
                        /\ callerStopped' = callerStopped
                        /\ IF hist'[i].caught = "tooManyAttempts"
                           THEN ReportedAs(i, "tooManyAttempts", FALSE)
                           ELSE errors' = errors /\ sink' = sink
                        /\ moreLibraries(frame[i]) =>
                              /\ pc'[i] = "fullTextEngine"
                              /\ frame'[i].idx = frame[i].idx + 1
                   /\ IF pc'[i] = "fullTextEngine"
                      THEN /\ frame'[i].out = res
                           /\ frame'[i].libraries = frame[i].libraries
                      ELSE FullTextReturns(i, res)]_vars

\* the full-text engine of the first of two libraries rejected with a 412
\* response: the library is on the list, nothing is queued and the engine of
\* the second library is running
C24_Witness ==
    \E i \in Invs :
        /\ hist[i].engine.res = "412"
        /\ pc[i] = "fullTextEngine"
        /\ frame[i].idx = 2
        /\ frame[i].out = <<hist[i].engine.lib>>
        /\ errors = <<>>
        /\ sink = <<>>
        /\ ~callerStopped

\* the pc at which an invocation waits for an engine of the phase
EnginePC(phase) ==
    CASE phase = "data" -> "dataEngine"
      [] phase = "file" -> "fileEngine"
      [] phase = "fullText" -> "fullTextEngine"

\* the number of errors the step of invocation i reports
ReportCount(i) ==
    IF options[i].onError THEN Len(sink') - Len(sink) ELSE Len(errors') - Len(errors)

\* C25: per-library failures.  In each phase, when an engine fails (no
\* cancellation, no 412 response) the error is reported once (the only other
\* error the step can report is the session's too-many-attempts error).  A
\* fatal failure stops the caller and ends the pass: no engine of the pass
\* is started for a later library.  A failure that is not fatal leaves the
\* caller as it is, and the loop goes on with the next library.
C25_HaltIffFatal ==
    [][\A i \in Invs : \A phase \in {"data", "file", "fullText"} :
          EngineEnds(i, phase, "fail") =>
              LET e == hist'[i].engine
              IN /\ pc[i] = EnginePC(phase)
                 /\ ReportedAs(i, e.kind, e.fatal)
                 /\ ReportCount(i) = IF hist'[i].caught = "tooManyAttempts" THEN 2 ELSE 1
                 /\ IF e.fatal
                    THEN /\ callerStopped'
                         /\ pc'[i] # pc[i]
                    ELSE /\ callerStopped' = callerStopped
                         /\ moreLibraries(frame[i]) =>
                               /\ pc'[i] = pc[i]
                               /\ frame'[i].idx = frame[i].idx + 1
                               /\ frame'[i].libraries = frame[i].libraries]_vars

\* the storage engine of the first of two libraries failed fatally: the
\* caller is stopped and the File phase is over, the second library's
\* engine not started
C25_Witness ==
    \E i \in Invs :
        /\ hist[i].engine.res = "fail"
        /\ hist[i].engine.phase = "file"
        /\ hist[i].engine.fatal
        /\ Len(hist[i].report.input) = 2
        /\ hist[i].report.lib = hist[i].report.input[1]
        /\ callerStopped
        /\ pc[i] # "fileEngine"

\* the caller has been stopped in the session invocation i is in: a fatal
\* error of an engine has been reported since the session began
StoppedInSession(i) ==
    /\ callerStopped
    /\ \E k \in 1..Len(Reported(i)) : Reported(i)[k].fatal

\* C26 as stated: once the caller has been stopped for a fatal failure of a
\* library, the session waits for no engine of any phase any more: neither
\* the phases that follow in the attempt nor a later attempt run.
C26_StopEndsSession ==
    \A i \in Invs :
        StoppedInSession(i) => pc[i] \notin {"dataEngine", "fileEngine", "fullTextEngine"}

\* C27 as stated: an error that is queued because the engine of library L
\* failed carries L as its libraryID: getErrorsByLibrary(L) returns it and
\* getErrorsByLibrary(M) does not, for any other library M.
C27_LibraryContext ==
    [][\A i \in Invs : \A phase \in {"data", "file", "fullText"} :
          (EngineEnds(i, phase, "fail") /\ ~options[i].onError) =>
              LET L == hist'[i].engine.lib
                  e == errors'[Len(errors) + 1]
              IN /\ e.libraryID = L
                 /\ e \in SeqSet(getErrorsByLibrary(errors', L))
                 /\ \A lib \in (0..(publicationsLibraryID + NumGroups)) \ {L} :
                        e \notin SeqSet(getErrorsByLibrary(errors', lib))]_vars

\* C28 as stated: while the engines of the first session of the runner that
\* got an API key run, the first-in-session flag is true in the session's
\* options and in the options the engines were given; in a later session
\* (here: the re-entry after a restart, with the same options object) it is
\* false in both.
C28_FirstInSessionFlag ==
    \A i \in Invs :
        pc[i] \in {"dataEngine", "fileEngine", "fullTextEngine"} =>
            /\ options[i].firstInSession = (hist[i].restarts = 0)
            /\ frame[i].engineFirstInSession = (hist[i].restarts = 0)

\* C29 as stated: in both modes, when checkLibraries returns, a local group
\* that was queued for download and whose permission-change confirmation
\* was declined is as it was before the call (version and metadata not
\* saved) and its library is not in the returned set; a group whose
\* confirmation was accepted, or that was new, has been saved with the
\* remote version and its library is in the returned set.
C29_DeclinedGroupSkipped ==
    \A i \in Invs :
        LET res == Resolution(i)
        IN res.status = "ok" =>
            \A g \in SeqSet(res.out.fetched) :
                IF res.gr[g] > 0 /\ ~res.in.keepGoing[g]
                THEN /\ groups[g] = res.gr[g]
                     /\ g \notin SeqSet(res.out.saved)
                     /\ GroupLibraryID(g) \notin SeqSet(res.out.libraries)
                ELSE /\ groups[g] = res.in.remote[g]
                     /\ g \in SeqSet(res.out.saved)
                     /\ GroupLibraryID(g) \in SeqSet(res.out.libraries)

\* the instances getStorageController has returned for a mode since the
\* mode's last reset are the cached instance alone, and no instance is
\* cached for two modes
OneControllerPerMode ==
    /\ \A mode \in Modes :
          storage.returned[mode] = IF storage.controllers[mode] = NoController THEN {}
                                   ELSE {storage.controllers[mode]}
    /\ \A m1, m2 \in Modes :
          (m1 # m2 /\ storage.controllers[m1] # NoController)
              => storage.controllers[m1] # storage.controllers[m2]

\* C30: the storage controller cache.  Between two resets of a mode every
\* getStorageController call for the mode returns the same instance,
\* whatever options it is passed, and the instance is constructed by the
\* first of them only; the first call after resetStorageController(mode)
\* constructs an instance that has not been returned before; a call for one
\* mode, reset or get, leaves the cached instances of the other modes as
\* they were.
C30_ControllerCache ==
    /\ []OneControllerPerMode
    /\ [][LET c == storage'.call
              others(mode) == [x \in Modes \ {mode} |-> storage.controllers[x]]
              others2(mode) == [x \in Modes \ {mode} |-> storage'.controllers[x]]
          IN storage' # storage =>
              /\ c.op = "get" =>
                    /\ c.constructed = (storage.controllers[c.mode] = NoController)
                    /\ IF c.constructed
                       THEN /\ c.ret \notin 0..storage.made
                            /\ storage'.made = storage.made + 1
                       ELSE /\ c.ret = storage.controllers[c.mode]
                            /\ storage'.made = storage.made
                    /\ storage'.controllers[c.mode] = c.ret
                    /\ others2(c.mode) = others(c.mode)
              /\ c.op = "reset" =>
                    /\ storage'.controllers[c.mode] = NoController
                    /\ storage'.made = storage.made
                    /\ others2(c.mode) = others(c.mode)]_vars

\* the 'zfs' controller was reset while a 'webdav' controller was cached,
\* and the next get for 'zfs' has constructed a third instance; the 'webdav'
\* instance is still the cached one
C30_Witness ==
    /\ storage.call.op = "get"
    /\ storage.call.mode = "zfs"
    /\ storage.call.constructed
    /\ storage.call.ret = 3
    /\ storage.controllers = [mode \in Modes |-> IF mode = "zfs" THEN 3 ELSE 2]
    /\ storage.returned["webdav"] = {2}

\* the working set and successfulLibraries of invocation i are within the
\* resolved set, and hold no library that a Data pass has dropped
WithinResolved(i) ==
    LET f == frame[i]
    IN /\ SeqSet(f.libraries) \subseteq SeqSet(hist[i].resolved)
       /\ SeqSet(f.successfulLibraries) \subseteq SeqSet(hist[i].resolved)
       /\ SeqSet(f.libraries) \cap hist[i].dropped = {}
       /\ SeqSet(f.successfulLibraries) \cap hist[i].dropped = {}

\* the step in which _doDataSync returns to sync(), the session going on
DataReturns(i) ==
    /\ pc[i] \in {"dataEngine", "updateLastSyncTime"}
    /\ pc'[i] \in {"fileEngine", "fullTextEngine", "dataEngine"}
    /\ pc[i] = "dataEngine" => pc'[i] # "dataEngine"

\* C31: within a session successfulLibraries only shrinks, and every working
\* set of a phase is a subset of the resolved set.  A library that the Data
\* pass of an attempt was given and did not return (its engine failed or was
\* cancelled, or it was not reached) is dropped, and a dropped library is in
\* no working set of a Data, File or FullText phase afterwards.
C31_DroppedStayDropped ==
    /\ [](\A i \in Invs : pc[i] \in PhasePCs => WithinResolved(i))
    /\ [][\A i \in Invs :
            /\ (pc[i] \in PhasePCs /\ pc'[i] \in PhasePCs) =>
                  /\ SeqSet(frame'[i].successfulLibraries)
                        \subseteq SeqSet(frame[i].successfulLibraries)
                  /\ hist[i].dropped \subseteq hist'[i].dropped
            /\ DataReturns(i) =>
                  \A l \in SeqSet(frame[i].libraries) :
                      (l \notin SeqSet(frame[i].out)
                          /\ ~(hist'[i].engine.res = "ok" /\ hist'[i].engine.lib = l))
                        => l \in hist'[i].dropped]_vars

\* the Data pass over two libraries dropped one of them, and the FullText
\* phase runs over the other one alone
C31_Witness ==
    \E i \in Invs :
        /\ pc[i] = "fullTextEngine"
        /\ Len(hist[i].resolved) = 2
        /\ Cardinality(hist[i].dropped) = 1
        /\ Len(frame[i].libraries) = 1
        /\ frame[i].libraries[1] \notin hist[i].dropped

\* C32 as stated: sync() leaves the resolution mode of the caller's options
\* as it is.  The callers here pass options that name no libraries, so
\* whenever a session of theirs, the first or a re-entry with the same
\* options object, calls checkLibraries, the options still name none and the
\* libraries are resolved in sync-all mode.
C32_ModeKept ==
    \A i \in Invs : pc[i] = "checkLibraries" => options[i].libraries = <<>>

\* C33 as stated: a setSyncTimeout call that is not recurring and is made
\* while a session is in progress leaves the timer as it was: it sets no
\* timer, and a timer that was set before the call is still set.  (The timer
\* is set by setSyncTimeout alone in these runs, and a recurring call leaves
\* it recurring, so any other change of it is by a one-shot call.)
C33_OneShotRefuses ==
    [][(syncInProgress /\ env'.timer # "recurring") => env'.timer = env.timer]_vars

\* C34 as stated: when all libraries are synced, with all-group access or
\* with no group access, a local group on the skip-list is not among the
\* remotely missing groups of the call: it is not prompted for, not erased,
\* and is a local group after the call as before.
C34_SkippedGroupKept ==
    \A i \in Invs :
        LET res == Resolution(i)
        IN (res.status # "none" /\ res.requested = <<>>
                /\ res.access.groups \in {"all", "none"}) =>
            \A g \in res.in.skippedGroups :
                res.gr[g] > 0 =>
                    /\ g \notin SeqSet(res.out.remotelyMissingGroups)
                    /\ g \notin SeqSet(res.out.prompted)
                    /\ g \notin SeqSet(res.out.erased)
                    /\ groups[g] = res.gr[g]
====
